---- MODULE Spec2Model ----
(***************************************************************************)
(* Automation chain orchestrator of backend/app/services:                  *)
(* automation_engine.py (execute_chain, resume_chain_run, _run_steps) over *)
(* the run store of automation.py (_save_run, get_run).                    *)
(*                                                                         *)
(* One chain definition and one run id are followed.  Every orchestrator   *)
(* invocation is a process p with its own in-memory run; the run store is  *)
(* shared.  Python's event loop runs a coroutine without interruption      *)
(* between two awaits, and the only await of the step loop is the call of  *)
(* executor.execute_skill, so an action is the code from one await (or the *)
(* call's entry) to the next await (or the return).                        *)
(* Step indices are 0-based as in the code; step i of chain a is a[i+1].   *)
(***************************************************************************)
EXTENDS Integers, Sequences, FiniteSets, TLC

\* ---- bounds --------------------------------------------------------------
MaxSteps == 3

\* the longest chain when invocations interleave
MaxConcSteps == 2

\* the longest chain when execute_chain is called again
MaxStoreSteps == 2

\* ---- values --------------------------------------------------------------
Procs == {1, 2}

\* run.get("waiting_step", 0): the key is absent
NoStep == -1

\* step.get("on_failure"...): the key is absent
Absent == "<absent>"

\* get_run() returned None: no file for the run id
NoRun == [status |-> "<none>"]

\* get_automation() returned None: no file for the automation id
NoAutomation == <<[id |-> "<none>"]>>

\* the run id whose file the variable store follows
FollowedRun == 1

\* mutant: every run gets the same id
new_run_id_reused(used) == 1

\* str(uuid.uuid4())[:12]: an id that no run has yet
new_run_id(used) == CHOOSE id \in 1..(Cardinality(used) + 1) : id \notin used

DefaultIds == <<"step-1", "step-2", "step-3", "step-4", "step-5", "step-6">>

\* f"step-{i+1}"
default_step_id(i) == DefaultIds[i + 1]

Gates == {"auto", "approve"}

\* on_failure of a stored step (_normalize_steps sets the default "stop")
OnFailures == {"stop", "skip"}

\* device_param of a step: "device" is supplied by the caller, "target" is not
DeviceParams == {"device", "target"}

\* the chain parameters the caller supplies
ChainParams == [device |-> "bigip01"]

\* what executor.execute_skill hands back: a result status, or it raises
SkillStatuses == {"complete", "failed", "rolled_back"}

Raises == "<raises>"

Outcomes == SkillStatuses \cup {Raises}

OnGates == {"pause", "auto_approve"}

Actions == {"approve", "reject"}

\* a chain step as stored after _normalize_steps
ChainStep(i, g, f, dp) ==
    [id |-> default_step_id(i), gate |-> g, on_failure |-> f,
     device_source |-> "parameter", device_param |-> dp,
     device_hostname |-> "", device_from_step |-> "",
     parameters |-> << >>, parameter_map |-> << >>]

\* the chains of n steps
ChainsOfLen(n) ==
    LET G == [1..n -> Gates]
        F == [1..n -> OnFailures]
        D == [1..n -> DeviceParams]
    IN { [k \in 1..n |-> ChainStep(k - 1, g[k], f[k], d[k])] :
            g \in G, f \in F, d \in D }

Chains == UNION { ChainsOfLen(n) : n \in 0..MaxSteps }

VARIABLES
    automations,   \* the stored chain definition (its steps)
    store,         \* the run store's record of the run, or NoRun
    pc,            \* per invocation: "idle", "await" (in execute_skill), "done"
    run,           \* per invocation: the in-memory run dict
    automation,    \* per invocation: the chain definition it loaded
    start_idx,     \* per invocation: _run_steps' start_idx
    idx,           \* per invocation: _run_steps' loop variable i
    call,          \* per invocation: the call and the store it found
    ret,           \* per invocation: the returned value
    invoked,       \* log of the calls of executor.execute_skill
    execution      \* executor.execute_skill: the one skill execution followed

vars == <<automations, store, pc, run, automation, start_idx, idx, call, ret, invoked,
          execution>>

\* no skill execution is followed
NoExecution == [pc |-> "none"]

NoCall == [op |-> "none"]

NoRet == [kind |-> "none"]

\* ---- automation_engine.py: the context template resolver -------------------

\* Python values whose type the resolver tests: dict, str, int
PyDict(f) == [t |-> "dict", d |-> f]

PyStr(s) == [t |-> "str", s |-> s]

PyInt(n) == [t |-> "int", n |-> n]

\* json.loads raised JSONDecodeError
NotJson == [t |-> "<not json>"]

\* the object a skill may print: {"mgmt_ip": "10.0.0.5", "vmid": 110, "count": 0}
OutputObject ==
    PyDict([mgmt_ip |-> PyStr("10.0.0.5"), vmid |-> PyInt(110), count |-> PyInt(0)])

\* the texts a skill execution may produce as its combined output
ObjectText == "{\"mgmt_ip\": \"10.0.0.5\", \"vmid\": 110, \"count\": 0}"

MixedText == "created {\"vmid\": 110} then {\"mgmt_ip\": \"10.0.0.5\"}"

OutputTexts == {ObjectText, MixedText, "ok", ""}

\* outputs of the steps of a skill: {"vmid": 110} and
\* {"vmid": 120, "mgmt_ip": "10.0.0.7"}
VmidObject == PyDict([vmid |-> PyInt(110)])

VmidText == "{\"vmid\": 110}"

ReplicaObject == PyDict([vmid |-> PyInt(120), mgmt_ip |-> PyStr("10.0.0.7")])

ReplicaText == "{\"vmid\": 120, \"mgmt_ip\": \"10.0.0.7\"}"

\* an output that names both vmid and new_vmid: {"vmid": 130, "new_vmid": 9}
AliasObject == PyDict([vmid |-> PyInt(130), new_vmid |-> PyInt(9)])

AliasText == "{\"vmid\": 130, \"new_vmid\": 9}"

\* mutant: the empty text parses as an empty object
json_loads_lenient(text) ==
    CASE text = ObjectText -> OutputObject
      [] text = VmidText -> VmidObject
      [] text = ReplicaText -> ReplicaObject
      [] text = AliasText -> AliasObject
      [] text = "110" -> PyInt(110)
      [] text = "" -> PyDict(<< >>)
      [] OTHER -> NotJson

\* json.loads on the texts that occur
json_loads(text) ==
    CASE text = ObjectText -> OutputObject
      [] text = VmidText -> VmidObject
      [] text = ReplicaText -> ReplicaObject
      [] text = AliasText -> AliasObject
      [] text = "110" -> PyInt(110)
      [] OTHER -> NotJson

\* the matches of \{[^{}]+\} in a text, each parsed, in order
object_candidates(text) ==
    CASE text = MixedText -> << PyDict([vmid |-> PyInt(110)]),
                                PyDict([mgmt_ip |-> PyStr("10.0.0.5")]) >>
      [] text = ObjectText -> << OutputObject >>
      [] OTHER -> << >>

\* str(obj)
py_str(obj) ==
    CASE obj.t = "str" -> obj.s
      [] obj.t = "int" -> (CASE obj.n = 0 -> "0" [] obj.n = 110 -> "110" [] OTHER -> "?")
      [] obj = OutputObject -> "{'mgmt_ip': '10.0.0.5', 'vmid': 110, 'count': 0}"
      [] OTHER -> "{...}"

\* bool(obj)
truthy(obj) ==
    CASE obj.t = "str" -> obj.s # ""
      [] obj.t = "int" -> obj.n # 0
      [] OTHER -> DOMAIN obj.d # {}

\* ".".join(parts)
RECURSIVE dotted(_)
dotted(parts) ==
    IF Len(parts) = 1 THEN parts[1]
    ELSE parts[1] \o "." \o dotted(Tail(parts))

\* match.group(0): the placeholder as written in the template
placeholder(parts) == "{{" \o dotted(parts) \o "}}"

\* obj.get(part, "")
dict_get(obj, part) == IF part \in DOMAIN obj.d THEN obj.d[part] ELSE PyStr("")

\* the first candidate object that has the key, or NotJson
first_with(cands, part) ==
    LET K == { k \in 1..Len(cands) : part \in DOMAIN cands[k].d }
    IN IF K = {} THEN NotJson
       ELSE cands[CHOOSE k \in K : \A m \in K : k <= m]

\* the run context as the tree of Python values the resolver walks
context_tree(context) ==
    PyDict([chain |-> PyDict([k \in DOMAIN context.chain |-> PyStr(context.chain[k])]),
            steps |-> PyDict([id \in DOMAIN context.steps |->
                         PyDict([status |-> PyStr(context.steps[id].status),
                                 device |-> PyStr(context.steps[id].device),
                                 output |-> context.steps[id].output])])])

\* return str(obj) if obj else ""
final_text(obj) == IF truthy(obj) THEN py_str(obj) ELSE ""

\* replacer: the loop over the parts of the path, then the final text
RECURSIVE walk(_, _, _)
walk(obj, parts, whole) ==
    IF parts = << >>
    THEN final_text(obj)
    ELSE LET part == Head(parts)
         IN IF obj.t = "dict"
            THEN walk(dict_get(obj, part), Tail(parts), whole)
            ELSE IF obj.t = "str"
                 THEN LET parsed == json_loads(obj.s)
                      IN IF parsed # NotJson
                         THEN IF parsed.t = "dict"
                              THEN walk(dict_get(parsed, part), Tail(parts), whole)
                              ELSE placeholder(whole)
                         ELSE LET c == first_with(object_candidates(obj.s), part)
                              IN IF c = NotJson
                                 THEN placeholder(whole)
                                 ELSE walk(dict_get(c, part), Tail(parts), whole)
                 ELSE placeholder(whole)

\* a template is a sequence of pieces: literal text or a {{path}} placeholder
Lit(text) == [kind |-> "text", text |-> text]

Ref(parts) == [kind |-> "ref", parts |-> parts]

\* _resolve_template: re.sub replaces every placeholder by replacer's result
RECURSIVE resolve_template(_, _)
resolve_template(template, context) ==
    IF template = << >> THEN ""
    ELSE LET piece == Head(template)
             text == IF piece.kind = "text" THEN piece.text
                     ELSE walk(context_tree(context), piece.parts, piece.parts)
         IN text \o resolve_template(Tail(template), context)

\* mutant: the chain context overwrites the explicit entries
build_step_params_chain_wins(step, context) ==
    LET explicit == step.parameter_map @@ step.parameters
    IN context.chain
         @@ [k \in DOMAIN explicit |-> resolve_template(explicit[k], context)]

\* _build_step_params
build_step_params(step, context) ==
    LET explicit == step.parameter_map @@ step.parameters
    IN [k \in DOMAIN explicit |-> resolve_template(explicit[k], context)]
         @@ context.chain

\* ---- automation_engine.py: helpers ----------------------------------------

\* _resolve_device
resolve_device(step, context) ==
    IF step.device_source = "fixed"
    THEN step.device_hostname
    ELSE IF step.device_source = "previous_step"
         THEN IF step.device_from_step \in DOMAIN context.steps
              THEN context.steps[step.device_from_step].device
              ELSE ""
         ELSE IF step.device_param \in DOMAIN context.chain
              THEN context.chain[step.device_param]
              ELSE ""

\* _make_step_result
make_step_result(step_id, status, device, error) ==
    [step_id |-> step_id, status |-> status, device |-> device, error |-> error]

\* the run dict built by execute_chain
new_run(a, chain_params) ==
    [status |-> "running",
     current_step |-> 0,
     total_steps |-> Len(a),
     step_results |-> <<>>,
     completed_at |-> FALSE,
     waiting_step |-> NoStep,
     context |-> [chain |-> chain_params, steps |-> <<>>]]

\* the state of an invocation after a stretch of _run_steps
Out(r, st, p, i) == [run |-> r, store |-> st, pc |-> p, idx |-> i]

\* mutant: the gate check exempts the step after the start index as well
gate_pauses_late(step, on_gate, i, start, status) ==
    /\ step.gate = "approve"
    /\ on_gate = "pause"
    /\ (i > start + 1 \/ status # "running")

\* mutant: the gate check does not look at the step's gate
gate_pauses_any(step, on_gate, i, start, status) ==
    /\ on_gate = "pause"
    /\ (i > start \/ status # "running")

\* mutant: the gate check pauses at the step the run resumes into as well
gate_pauses_again(step, on_gate, i, start, status) ==
    /\ step.gate = "approve"
    /\ on_gate = "pause"
    /\ (i >= start \/ status # "running")

\* mutant: the gate check does not look at the gate mode
gate_pauses_nomode(step, on_gate, i, start, status) ==
    /\ step.gate = "approve"
    /\ (i > start \/ status # "running")

\* the gate check of _run_steps
gate_pauses(step, on_gate, i, start, status) ==
    /\ step.gate = "approve"
    /\ on_gate = "pause"
    /\ (i > start \/ status # "running")

\* mutant: every failure policy is read as stop
failure_action_stop(step) == "stop"

\* step.get("on_failure", "stop")
failure_action(step) ==
    IF step.on_failure = Absent THEN "stop" ELSE step.on_failure

\* mutant: a rolled-back execution is not taken for a failure
is_failure_failed_only(status) == status = "failed"

\* status in (ExecutionStatus.FAILED, ExecutionStatus.ROLLED_BACK)
is_failure(status) == status \in {"failed", "rolled_back"}

\* mutant: an empty device is taken for a resolved one
unresolved_never(device) == FALSE

\* if not device
unresolved(device) == device = ""

\* mutant: the pause does not record the step it waits at
pause_at_unset(r, i) == [r EXCEPT !.status = "waiting_approval"]

\* run["status"] = "waiting_approval"; run["waiting_step"] = i
pause_at(r, i) == [r EXCEPT !.status = "waiting_approval", !.waiting_step = i]

\* mutant: a stopping failure returns the run as it is
end_failed_unmarked(r, i) ==
    Out(r, r, "done", i)

\* run["status"] = "failed"; completed_at = now; save_fn(run); return
end_failed(r, i) ==
    LET r2 == [r EXCEPT !.status = "failed", !.completed_at = TRUE]
    IN Out(r2, r2, "done", i)

\* _run_steps from the top of iteration i up to the next await or the return
RECURSIVE run_steps(_, _, _, _, _, _)
run_steps(a, r, st, i, start, on_gate) ==
    IF i >= Len(a)
    THEN LET r2 == [r EXCEPT !.status = "complete", !.completed_at = TRUE]
         IN Out(r2, r2, "done", i)
    ELSE LET step == a[i + 1]
             r1 == [r EXCEPT !.current_step = i + 1]
         IN IF gate_pauses(step, on_gate, i, start, r1.status)
            THEN LET r2 == pause_at(r1, i)
                 IN Out(r2, r2, "done", i)
            ELSE IF unresolved(resolve_device(step, r1.context))
                 THEN LET sr == make_step_result(step.id, "failed", "",
                                                 "Could not resolve device")
                          r2 == [r1 EXCEPT !.step_results = Append(@, sr)]
                      IN IF step.on_failure = "stop"
                         THEN end_failed(r2, i)
                         ELSE run_steps(a, r2, st, i + 1, start, on_gate)
                 ELSE Out(r1, st, "await", i)

\* mutant: a raised error leaves no step result
after_step_noresult(a, r, st, i, start, on_gate, outcome) ==
    LET step == a[i + 1]
        device == resolve_device(step, r.context)
    IN IF outcome = Raises
       THEN IF step.on_failure = "stop"
            THEN end_failed(r, i)
            ELSE run_steps(a, r, r, i + 1, start, on_gate)
       ELSE LET sr == make_step_result(step.id, outcome, device, "")
                entry == [status |-> outcome, device |-> device]
                r2 == [r EXCEPT !.step_results = Append(@, sr),
                                !.context.steps = (step.id :> entry) @@ @]
            IN IF is_failure(outcome)
               THEN IF failure_action(step) = "stop"
                    THEN end_failed(r2, i)
                    ELSE IF failure_action(step) = "skip"
                         THEN run_steps(a, r2, st, i + 1, start, on_gate)
                         ELSE run_steps(a, r2, r2, i + 1, start, on_gate)
               ELSE run_steps(a, r2, r2, i + 1, start, on_gate)

\* _run_steps from the return of _execute_step in iteration i
after_step(a, r, st, i, start, on_gate, outcome) ==
    LET step == a[i + 1]
        device == resolve_device(step, r.context)
    IN IF outcome = Raises
       THEN LET sr == make_step_result(step.id, "failed", "", "exception")
                r2 == [r EXCEPT !.step_results = Append(@, sr)]
            IN IF step.on_failure = "stop"
               THEN end_failed(r2, i)
               ELSE run_steps(a, r2, r2, i + 1, start, on_gate)
       ELSE LET sr == make_step_result(step.id, outcome, device, "")
                entry == [status |-> outcome, device |-> device]
                r2 == [r EXCEPT !.step_results = Append(@, sr),
                                !.context.steps = (step.id :> entry) @@ @]
            IN IF is_failure(outcome)
               THEN IF failure_action(step) = "stop"
                    THEN end_failed(r2, i)
                    ELSE IF failure_action(step) = "skip"
                         THEN run_steps(a, r2, st, i + 1, start, on_gate)
                         ELSE run_steps(a, r2, r2, i + 1, start, on_gate)
               ELSE run_steps(a, r2, r2, i + 1, start, on_gate)

\* ---- the state machine ----------------------------------------------------

Init ==
    /\ automations \in Chains
    /\ store = NoRun
    /\ pc = [p \in Procs |-> "idle"]
    /\ run = [p \in Procs |-> NoRun]
    /\ automation = [p \in Procs |-> <<>>]
    /\ start_idx = [p \in Procs |-> 0]
    /\ idx = [p \in Procs |-> 0]
    /\ call = [p \in Procs |-> NoCall]
    /\ ret = [p \in Procs |-> NoRet]
    /\ invoked = <<>>
    /\ execution = NoExecution

\* the invocation enters _run_steps and runs to its first await or its return
Enter(p, a, r, start, c) ==
    LET o == run_steps(a, r, store, start, start, c.on_gate)
    IN /\ pc' = [pc EXCEPT ![p] = o.pc]
       /\ run' = [run EXCEPT ![p] = o.run]
       /\ store' = IF c.run_id = FollowedRun THEN o.store ELSE store
       /\ idx' = [idx EXCEPT ![p] = o.idx]
       /\ automation' = [automation EXCEPT ![p] = a]
       /\ start_idx' = [start_idx EXCEPT ![p] = start]
       /\ call' = [call EXCEPT ![p] = c]
       /\ ret' = [ret EXCEPT ![p] =
                    IF o.pc = "done" THEN [kind |-> "run", run |-> o.run] ELSE NoRet]
       /\ invoked' = IF o.pc = "await"
                     THEN Append(invoked, [proc |-> p, op |-> c.op, on_gate |-> c.on_gate,
                                           start |-> start, step |-> o.idx,
                                           run_id |-> c.run_id,
                                           params |-> build_step_params(a[o.idx + 1],
                                                                        o.run.context)])
                     ELSE invoked
       /\ UNCHANGED <<automations, execution>>

\* execute_chain(automation_id, chain_params, on_gate)
ExecuteChain(p, on_gate) ==
    /\ pc[p] = "idle"
    /\ automations # NoAutomation
    /\ store = NoRun
    /\ \A q \in Procs : call[q].op # "execute_chain"
    /\ Enter(p, automations, new_run(automations, ChainParams), 0,
             [op |-> "execute_chain", action |-> "", on_gate |-> on_gate,
              pre |-> store, ninv |-> Len(invoked),
              run_id |-> new_run_id({})])

\* execute_chain called again when the followed run exists: a new run id
ExecuteChainLater(p, on_gate) ==
    /\ pc[p] = "idle"
    /\ automations # NoAutomation
    /\ store # NoRun
    /\ \A k \in 1..Len(invoked) : invoked[k].run_id = FollowedRun
    /\ Enter(p, automations, new_run(automations, ChainParams), 0,
             [op |-> "execute_chain", action |-> "", on_gate |-> on_gate,
              pre |-> store, ninv |-> Len(invoked),
              run_id |-> new_run_id({FollowedRun})])

\* mutant: the run record is created before the definition is looked up
ExecuteChainNotFound_creates(p, on_gate) ==
    /\ pc[p] = "idle"
    /\ automations = NoAutomation
    /\ pc' = [pc EXCEPT ![p] = "done"]
    /\ call' = [call EXCEPT ![p] =
                  [op |-> "execute_chain", action |-> "", on_gate |-> on_gate,
                   pre |-> store, ninv |-> Len(invoked), run_id |-> 0]]
    /\ ret' = [ret EXCEPT ![p] = [kind |-> "error", error |-> "Automation not found"]]
    /\ store' = new_run(<<>>, ChainParams)
    /\ UNCHANGED <<execution, automations, run, automation, start_idx, idx, invoked>>

\* execute_chain: the automation id has no definition
ExecuteChainNotFound(p, on_gate) ==
    /\ pc[p] = "idle"
    /\ automations = NoAutomation
    /\ pc' = [pc EXCEPT ![p] = "done"]
    /\ call' = [call EXCEPT ![p] =
                  [op |-> "execute_chain", action |-> "", on_gate |-> on_gate,
                   pre |-> store, ninv |-> Len(invoked), run_id |-> 0]]
    /\ ret' = [ret EXCEPT ![p] = [kind |-> "error", error |-> "Automation not found"]]
    /\ UNCHANGED <<execution, automations, store, run, automation, start_idx, idx, invoked>>

\* resume_chain_run: the run is missing or is not waiting for approval
ResumeError(p, action) ==
    /\ pc[p] = "idle"
    /\ store = NoRun \/ store.status # "waiting_approval"
    /\ pc' = [pc EXCEPT ![p] = "done"]
    /\ call' = [call EXCEPT ![p] =
                  [op |-> "resume_chain_run", action |-> action, on_gate |-> "pause",
                   pre |-> store, ninv |-> Len(invoked),
                   run_id |-> FollowedRun]]
    /\ ret' = [ret EXCEPT ![p] =
                 [kind |-> "error",
                  error |-> IF store = NoRun THEN "Run not found"
                            ELSE "Run not waiting approval"]]
    /\ UNCHANGED <<execution, automations, store, run, automation, start_idx, idx, invoked>>

\* mutant: a rejection does not check that the run is waiting for approval
ResumeReject_unchecked(p) ==
    /\ pc[p] = "idle"
    /\ store # NoRun
    /\ LET r2 == [store EXCEPT !.status = "cancelled", !.completed_at = TRUE]
       IN /\ store' = r2
          /\ run' = [run EXCEPT ![p] = r2]
          /\ ret' = [ret EXCEPT ![p] = [kind |-> "run", run |-> r2]]
    /\ pc' = [pc EXCEPT ![p] = "done"]
    /\ call' = [call EXCEPT ![p] =
                  [op |-> "resume_chain_run", action |-> "reject", on_gate |-> "pause",
                   pre |-> store, ninv |-> Len(invoked),
                   run_id |-> FollowedRun]]
    /\ UNCHANGED <<execution, automations, automation, start_idx, idx, invoked>>

\* mutant: the rejection is not written to the run store
ResumeReject_unsaved(p) ==
    /\ pc[p] = "idle"
    /\ store # NoRun
    /\ store.status = "waiting_approval"
    /\ LET r2 == [store EXCEPT !.status = "cancelled", !.completed_at = TRUE]
       IN /\ run' = [run EXCEPT ![p] = r2]
          /\ ret' = [ret EXCEPT ![p] = [kind |-> "run", run |-> r2]]
    /\ pc' = [pc EXCEPT ![p] = "done"]
    /\ call' = [call EXCEPT ![p] =
                  [op |-> "resume_chain_run", action |-> "reject", on_gate |-> "pause",
                   pre |-> store, ninv |-> Len(invoked),
                   run_id |-> FollowedRun]]
    /\ UNCHANGED <<execution, automations, store, automation, start_idx, idx, invoked>>

\* resume_chain_run(run_id, "reject")
ResumeReject(p) ==
    /\ pc[p] = "idle"
    /\ store # NoRun
    /\ store.status = "waiting_approval"
    /\ LET r2 == [store EXCEPT !.status = "cancelled", !.completed_at = TRUE]
       IN /\ store' = r2
          /\ run' = [run EXCEPT ![p] = r2]
          /\ ret' = [ret EXCEPT ![p] = [kind |-> "run", run |-> r2]]
    /\ pc' = [pc EXCEPT ![p] = "done"]
    /\ call' = [call EXCEPT ![p] =
                  [op |-> "resume_chain_run", action |-> "reject", on_gate |-> "pause",
                   pre |-> store, ninv |-> Len(invoked),
                   run_id |-> FollowedRun]]
    /\ UNCHANGED <<execution, automations, automation, start_idx, idx, invoked>>

\* mutant: the step loop is re-entered at the first step
ResumeApprove_restart(p) ==
    /\ pc[p] = "idle"
    /\ store # NoRun
    /\ store.status = "waiting_approval"
    /\ LET r1 == [store EXCEPT !.status = "running", !.waiting_step = NoStep]
       IN Enter(p, automations, r1, 0,
                [op |-> "resume_chain_run", action |-> "approve", on_gate |-> "pause",
                 pre |-> store, ninv |-> Len(invoked),
                   run_id |-> FollowedRun])

\* mutant: the step loop is re-entered in auto_approve gate mode
ResumeApprove_autogate(p) ==
    /\ pc[p] = "idle"
    /\ store # NoRun
    /\ store.status = "waiting_approval"
    /\ LET start == IF store.waiting_step # NoStep THEN store.waiting_step ELSE 0
           r1 == [store EXCEPT !.status = "running", !.waiting_step = NoStep]
       IN Enter(p, automations, r1, start,
                [op |-> "resume_chain_run", action |-> "approve",
                 on_gate |-> "auto_approve",
                 pre |-> store, ninv |-> Len(invoked),
                   run_id |-> FollowedRun])

\* mutant: the step loop is re-entered after the step the run waited at
ResumeApprove_next(p) ==
    /\ pc[p] = "idle"
    /\ store # NoRun
    /\ store.status = "waiting_approval"
    /\ automations # NoAutomation
    /\ LET start == IF store.waiting_step # NoStep THEN store.waiting_step + 1 ELSE 0
           r1 == [store EXCEPT !.status = "running", !.waiting_step = NoStep]
       IN Enter(p, automations, r1, start,
                [op |-> "resume_chain_run", action |-> "approve", on_gate |-> "pause",
                 pre |-> store, ninv |-> Len(invoked),
                   run_id |-> FollowedRun])

\* resume_chain_run(run_id, "approve")
ResumeApprove(p) ==
    /\ pc[p] = "idle"
    /\ store # NoRun
    /\ store.status = "waiting_approval"
    /\ automations # NoAutomation
    /\ LET start == IF store.waiting_step # NoStep THEN store.waiting_step ELSE 0
           r1 == [store EXCEPT !.status = "running", !.waiting_step = NoStep]
       IN Enter(p, automations, r1, start,
                [op |-> "resume_chain_run", action |-> "approve", on_gate |-> "pause",
                 pre |-> store, ninv |-> Len(invoked),
                   run_id |-> FollowedRun])

\* executor.execute_skill returns (or raises) and _run_steps goes on
SkillReturns(p, outcome) ==
    /\ pc[p] = "await"
    /\ LET o == after_step(automation[p], run[p], store, idx[p], start_idx[p],
                           call[p].on_gate, outcome)
       IN /\ pc' = [pc EXCEPT ![p] = o.pc]
          /\ run' = [run EXCEPT ![p] = o.run]
          /\ store' = IF call[p].run_id = FollowedRun THEN o.store ELSE store
          /\ idx' = [idx EXCEPT ![p] = o.idx]
          /\ ret' = [ret EXCEPT ![p] =
                       IF o.pc = "done" THEN [kind |-> "run", run |-> o.run] ELSE NoRet]
          /\ invoked' = IF o.pc = "await"
                        THEN Append(invoked, [proc |-> p, op |-> call[p].op,
                                              on_gate |-> call[p].on_gate,
                                              start |-> start_idx[p], step |-> o.idx,
                                              run_id |-> call[p].run_id,
                                              params |-> build_step_params(
                                                           automation[p][o.idx + 1],
                                                           o.run.context)])
                        ELSE invoked
    /\ UNCHANGED <<execution, automations, automation, start_idx, call>>

\* the caller takes the returned value
Return(p) ==
    /\ pc[p] = "done"
    /\ pc' = [pc EXCEPT ![p] = "idle"]
    /\ run' = [run EXCEPT ![p] = NoRun]
    /\ automation' = [automation EXCEPT ![p] = <<>>]
    /\ start_idx' = [start_idx EXCEPT ![p] = 0]
    /\ idx' = [idx EXCEPT ![p] = 0]
    /\ call' = [call EXCEPT ![p] = NoCall]
    /\ ret' = [ret EXCEPT ![p] = NoRet]
    /\ UNCHANGED <<execution, automations, store, invoked>>

\* one caller owns the step loop for the whole call (spec section 5)
Sequential(p) == p = 1 /\ \A q \in Procs : pc[q] = "idle"

Next ==
    \/ \E p \in Procs, g \in OnGates : Sequential(p) /\ ExecuteChain(p, g)
    \/ \E p \in Procs, a \in Actions : Sequential(p) /\ ResumeError(p, a)
    \/ \E p \in Procs : Sequential(p) /\ ResumeReject(p)
    \/ \E p \in Procs : Sequential(p) /\ ResumeApprove(p)
    \/ \E p \in Procs, o \in Outcomes : SkillReturns(p, o)
    \/ \E p \in Procs : Return(p)

Spec == Init /\ [][Next]_vars

\* ---- interleaved invocations ----------------------------------------------
\* The HTTP layer starts a coroutine per request, so a second call can be
\* made while another invocation is suspended in execute_skill.

\* the chains here are short and every step's device is supplied
InitConc ==
    /\ Init
    /\ Len(automations) <= MaxConcSteps
    /\ \A k \in 1..Len(automations) : automations[k].device_param = "device"

\* the outcomes of execute_skill followed here
ConcOutcomes == {"complete", "failed"}

NextConc ==
    \/ \E p \in Procs, g \in OnGates : ExecuteChain(p, g)
    \/ \E p \in Procs, a \in Actions : ResumeError(p, a)
    \/ \E p \in Procs : ResumeReject(p)
    \/ \E p \in Procs : ResumeApprove(p)
    \/ \E p \in Procs, o \in ConcOutcomes : SkillReturns(p, o)
    \/ \E p \in Procs : Return(p)

SpecConc == InitConc /\ [][NextConc]_vars

\* ---- later runs and missing definitions -----------------------------------
\* One caller at a time; execute_chain may be called again once the followed
\* run exists, and the automation id may have no definition.

InitStore ==
    /\ automations \in
         { c \in Chains : /\ Len(c) <= MaxStoreSteps
                          /\ \A k \in 1..Len(c) : c[k].device_param = "device" }
           \cup {NoAutomation}
    /\ store = NoRun
    /\ pc = [p \in Procs |-> "idle"]
    /\ run = [p \in Procs |-> NoRun]
    /\ automation = [p \in Procs |-> <<>>]
    /\ start_idx = [p \in Procs |-> 0]
    /\ idx = [p \in Procs |-> 0]
    /\ call = [p \in Procs |-> NoCall]
    /\ ret = [p \in Procs |-> NoRet]
    /\ invoked = <<>>
    /\ execution = NoExecution

NextStore ==
    \/ \E p \in Procs, g \in OnGates : Sequential(p) /\ ExecuteChain(p, g)
    \/ \E p \in Procs, g \in OnGates : Sequential(p) /\ ExecuteChainLater(p, g)
    \/ \E p \in Procs, g \in OnGates : Sequential(p) /\ ExecuteChainNotFound(p, g)
    \/ \E p \in Procs, a \in Actions : Sequential(p) /\ ResumeError(p, a)
    \/ \E p \in Procs : Sequential(p) /\ ResumeReject(p)
    \/ \E p \in Procs : Sequential(p) /\ ResumeApprove(p)
    \/ \E p \in Procs, o \in ConcOutcomes : SkillReturns(p, o)
    \/ \E p \in Procs : Return(p)

SpecStore == InitStore /\ [][NextStore]_vars

\* ---- the claims -----------------------------------------------------------

\* the gate of step i of the stored chain
GateOf(i) == automations[i + 1].gate

\* the (0-based) indices of the steps of the stored chain
StepIdxs == 0..(Len(automations) - 1)

\* invocation p has returned a run from execute_chain
ExecReturned(p) ==
    pc[p] = "done" /\ call[p].op = "execute_chain" /\ ret[p].kind = "run"

\* invocation p was a resume_chain_run(action) that found the run waiting
ResumeOfWaiting(p, action) ==
    /\ call[p].op = "resume_chain_run"
    /\ call[p].action = action
    /\ call[p].pre.status = "waiting_approval"

\* C1: in pause mode the skill of a gate=approve step, at any index including
\* index 0 of a fresh execute_chain, is invoked only by a resume_chain_run
\* (approve) that resumes into exactly that step; execute_chain never invokes
\* it itself.
C1_GateNeverBypassed ==
    \A k \in 1..Len(invoked) :
        (invoked[k].on_gate = "pause" /\ GateOf(invoked[k].step) = "approve")
            => (invoked[k].op = "resume_chain_run"
                /\ invoked[k].start = invoked[k].step)

\* the chain has exactly one gate=approve step, at index k
OneApproveAt(k) ==
    /\ k \in StepIdxs
    /\ \A j \in StepIdxs : GateOf(j) = "approve" <=> j = k

\* C2 as stated: a chain with exactly one gate=approve step at index k > 0,
\* run by execute_chain in pause mode, returns waiting_approval with
\* waiting_step = k and exactly k step results.
C2_AsStated ==
    \A p \in Procs, k \in 1..MaxSteps :
        (ExecReturned(p) /\ call[p].on_gate = "pause" /\ OneApproveAt(k))
            => /\ ret[p].run.status = "waiting_approval"
               /\ ret[p].run.waiting_step = k
               /\ Len(ret[p].run.step_results) = k

\* the run r ended as failed at a step whose failure policy is stop
StoppedByFailure(r) ==
    /\ r.status = "failed"
    /\ Len(r.step_results) >= 1
    /\ r.step_results[Len(r.step_results)].status \in {"failed", "rolled_back"}
    /\ automations[Len(r.step_results)].on_failure = "stop"

\* C2 (amended): such a run returns waiting_approval with waiting_step = k
\* and exactly k step results, unless a step before k failed with on_failure
\* stop, in which case it returns failed with at most k step results.
C2_PausesAtGateUnlessStopped ==
    \A p \in Procs, k \in 1..MaxSteps :
        (ExecReturned(p) /\ call[p].on_gate = "pause" /\ OneApproveAt(k))
            => \/ /\ ret[p].run.status = "waiting_approval"
                  /\ ret[p].run.waiting_step = k
                  /\ Len(ret[p].run.step_results) = k
               \/ /\ StoppedByFailure(ret[p].run)
                  /\ Len(ret[p].run.step_results) <= k

\* C2 witness: execute_chain has paused at the only gate, at index 2
C2_Witness ==
    \E p \in Procs :
        /\ ExecReturned(p) /\ call[p].on_gate = "pause" /\ OneApproveAt(2)
        /\ ret[p].run.status = "waiting_approval"
        /\ Len(ret[p].run.step_results) = 2

\* C3: execute_chain of a chain whose steps all have gate=auto returns a run
\* whose status is complete or failed, never waiting_approval, in either gate
\* mode and whatever the skills' outcomes and the failure policies.
C3_AutoChainNeverWaits ==
    \A p \in Procs :
        (ExecReturned(p) /\ \A j \in StepIdxs : GateOf(j) = "auto")
            => /\ ret[p].run.status \in {"complete", "failed"}
               /\ ret[p].run.waiting_step = NoStep
               /\ store.status \in {"complete", "failed"}

\* C3 witness: an all-auto chain of two or more steps has completed in pause
\* mode with a failed step result on the way
C3_Witness ==
    \E p \in Procs :
        /\ ExecReturned(p) /\ call[p].on_gate = "pause"
        /\ Len(automations) >= 2
        /\ \A j \in StepIdxs : GateOf(j) = "auto"
        /\ ret[p].run.status = "complete"
        /\ \E n \in 1..Len(ret[p].run.step_results) :
              ret[p].run.step_results[n].status = "failed"

\* C4: resume_chain_run(reject) on a run in waiting_approval returns the run
\* as cancelled, has persisted it, has invoked no skill, and leaves the step
\* results and the step context as they were before the call.
C4_RejectCancelsAndKeepsResults ==
    \A p \in Procs :
        (pc[p] = "done" /\ ResumeOfWaiting(p, "reject"))
            => /\ ret[p].kind = "run"
               /\ ret[p].run.status = "cancelled"
               /\ store = ret[p].run
               /\ Len(invoked) = call[p].ninv
               /\ store.step_results = call[p].pre.step_results
               /\ store.context = call[p].pre.context

\* C4 witness: a run paused with a step result on record has been rejected
C4_Witness ==
    \E p \in Procs :
        /\ pc[p] = "done" /\ ResumeOfWaiting(p, "reject")
        /\ Len(call[p].pre.step_results) >= 1
        /\ store.status = "cancelled"

\* invocation p is a resume_chain_run(approve) that is in, or has left, the
\* step loop
Resuming(p) ==
    pc[p] \in {"await", "done"} /\ ResumeOfWaiting(p, "approve") /\ ret[p].kind # "error"

\* the index of the step a step result belongs to
StepOfResult(sr) == CHOOSE j \in StepIdxs : automations[j + 1].id = sr.step_id

\* the step results invocation p has appended since its call
NewResults(p) ==
    SubSeq(run[p].step_results, Len(call[p].pre.step_results) + 1,
           Len(run[p].step_results))

\* the skill invocations logged since the call of invocation p
NewInvoked(p) == SubSeq(invoked, call[p].ninv + 1, Len(invoked))

\* invocation p keeps the results it found and neither invokes nor records
\* a step below the waiting step
NeverBelowWaitingStep(p) ==
    LET w == call[p].pre.waiting_step
    IN /\ Len(run[p].step_results) >= Len(call[p].pre.step_results)
       /\ SubSeq(run[p].step_results, 1, Len(call[p].pre.step_results))
             = call[p].pre.step_results
       /\ \A k \in 1..Len(NewInvoked(p)) : NewInvoked(p)[k].step >= w
       /\ \A k \in 1..Len(NewResults(p)) : StepOfResult(NewResults(p)[k]) >= w

\* C5 as stated: the first skill a resume_chain_run(approve) invokes is the
\* one of the step at waiting_step, and it neither invokes nor records any
\* step with a lower index.
C5_AsStated ==
    \A p \in Procs :
        Resuming(p)
            => /\ NeverBelowWaitingStep(p)
               /\ Len(NewInvoked(p)) >= 1
                    => NewInvoked(p)[1].step = call[p].pre.waiting_step

\* C5 (amended): the first step a resume_chain_run(approve) attempts is the
\* one at waiting_step: its skill is the first invoked, unless its device
\* cannot be resolved, and then a failed result is recorded for it first; no
\* step with a lower index is invoked or recorded, in every pause/resume cycle.
C5_ResumesAtWaitingStep ==
    \A p \in Procs :
        Resuming(p)
            => LET w == call[p].pre.waiting_step
               IN /\ NeverBelowWaitingStep(p)
                  /\ Len(NewResults(p)) >= 1
                       => StepOfResult(NewResults(p)[1]) = w
                  /\ Len(NewInvoked(p)) >= 1
                       => \/ NewInvoked(p)[1].step = w
                          \/ /\ Len(NewResults(p)) >= 1
                             /\ NewResults(p)[1].error = "Could not resolve device"
                             /\ NewInvoked(p)[1].step > w

\* C5 witness: the second resume of a run, into step 2, has invoked step 2
\* after an earlier resume into step 1
C5_Witness ==
    \E p \in Procs :
        /\ Resuming(p)
        /\ call[p].pre.waiting_step = 2
        /\ Len(NewInvoked(p)) >= 1 /\ NewInvoked(p)[1].step = 2
        /\ \E k \in 1..call[p].ninv :
              invoked[k].op = "resume_chain_run" /\ invoked[k].start = 1

\* the gate=approve steps after index s
LaterGates(s) == { j \in StepIdxs : j > s /\ GateOf(j) = "approve" }

\* C6: a resume_chain_run(approve) executes the step it resumes into without
\* pausing again, and stops at the first later gate=approve step: it returns
\* waiting_approval with waiting_step at that gate, persisted, and invokes no
\* skill at or beyond it.
C6_ResumePausesAtLaterGate ==
    \A p \in Procs :
        Resuming(p)
            => LET w == call[p].pre.waiting_step
                   L == LaterGates(w)
               IN /\ \A k \in 1..Len(NewInvoked(p)) :
                        \A j \in L : NewInvoked(p)[k].step < j
                  /\ pc[p] = "done"
                       => /\ Len(NewResults(p)) >= 1
                          /\ \A j \in L : Len(run[p].step_results) <= j
                          /\ run[p].status = "complete" => L = {}
                          /\ run[p].status = "waiting_approval"
                               => /\ run[p].waiting_step \in L
                                  /\ \A j \in L : run[p].waiting_step <= j
                                  /\ store = run[p]

\* C6 witness: a resume into step 1 has returned the run paused at step 2
C6_Witness ==
    \E p \in Procs :
        /\ Resuming(p) /\ pc[p] = "done"
        /\ call[p].pre.waiting_step = 1
        /\ run[p].status = "waiting_approval"
        /\ run[p].waiting_step = 2
        /\ Len(NewInvoked(p)) = 1

\* the chain [A: gate auto, on_failure stop; B: gate approve, on_failure stop]
ChainAB ==
    <<ChainStep(0, "auto", "stop", "device"), ChainStep(1, "approve", "stop", "device")>>

\* every recorded step result is a completed skill execution
AllComplete(r) ==
    \A n \in 1..Len(r.step_results) : r.step_results[n].status = "complete"

\* C7: for the chain [A auto/stop, B approve/stop] in pause mode with both
\* skills succeeding, execute_chain returns waiting_approval, waiting_step 1,
\* one step result; the following resume_chain_run(approve) invokes skill B
\* exactly once and returns complete with two step results.
C7_TwoStepExample ==
    automations = ChainAB
        => \A p \in Procs :
              /\ (ExecReturned(p) /\ call[p].on_gate = "pause" /\ AllComplete(ret[p].run))
                    => /\ ret[p].run.status = "waiting_approval"
                       /\ ret[p].run.waiting_step = 1
                       /\ Len(ret[p].run.step_results) = 1
              /\ (Resuming(p) /\ pc[p] = "done" /\ AllComplete(run[p]))
                    => /\ ret[p].run.status = "complete"
                       /\ Len(ret[p].run.step_results) = 2
                       /\ Cardinality({k \in 1..Len(invoked) : invoked[k].step = 1}) = 1
                       /\ Cardinality({k \in 1..Len(invoked) : invoked[k].step = 0}) = 1

\* C7 witness: the resumed run of the chain has completed with two results
C7_Witness ==
    /\ automations = ChainAB
    /\ \E p \in Procs :
          /\ Resuming(p) /\ pc[p] = "done"
          /\ ret[p].run.status = "complete"
          /\ Len(ret[p].run.step_results) = 2
          /\ AllComplete(ret[p].run)

\* in this step invocation p gets back a failed skill execution of step
\* idx[p] (status failed or rolled_back, not a raised error)
SkillFails(p) ==
    /\ pc[p] = "await"
    /\ Len(run'[p].step_results) > Len(run[p].step_results)
    /\ LET sr == run'[p].step_results[Len(run[p].step_results) + 1]
       IN sr.status \in {"failed", "rolled_back"} /\ sr.error = ""

\* C8: when the skill execution of step i fails (failed or rolled_back) and
\* the step's on_failure is stop, the run ends at once as failed with i+1
\* step results, is persisted, and no later step is attempted.
C8_StopEndsRun ==
    [][ \A p \in Procs :
          (SkillFails(p) /\ automation[p][idx[p] + 1].on_failure = "stop")
              => /\ pc'[p] = "done"
                 /\ ret'[p].kind = "run"
                 /\ ret'[p].run.status = "failed"
                 /\ Len(ret'[p].run.step_results) = idx[p] + 1
                 /\ ret'[p].run.current_step = idx[p] + 1
                 /\ store' = ret'[p].run
                 /\ invoked' = invoked ]_vars

\* C8 witness: a run has ended as failed at its second step, which is not the
\* last, on a rolled-back skill execution
C8_Witness ==
    \E p \in Procs :
        /\ pc[p] = "done" /\ ret[p].kind = "run"
        /\ ret[p].run.status = "failed"
        /\ Len(ret[p].run.step_results) = 2
        /\ Len(automations) = 3
        /\ ret[p].run.step_results[2].status = "rolled_back"
        /\ store = ret[p].run

\* C9: when the skill execution of step i fails and the step's on_failure is
\* skip, the run does not end there: the loop goes on to step i+1 (or
\* completes if i was the last step), and a run that ends as failed was
\* stopped by a step whose on_failure is stop.
C9_SkipContinues ==
    [][ \A p \in Procs :
          (SkillFails(p) /\ automation[p][idx[p] + 1].on_failure = "skip")
              => /\ idx[p] + 1 = Len(automation[p])
                    => (pc'[p] = "done" /\ run'[p].status = "complete"
                        /\ store' = run'[p])
                 /\ idx[p] + 1 < Len(automation[p])
                    => run'[p].current_step >= idx[p] + 2
                 /\ run'[p].status = "failed"
                    => /\ Len(run'[p].step_results) > idx[p] + 1
                       /\ StoppedByFailure(run'[p]) ]_vars

\* C9 witness: a run has completed although the skill of a step with
\* on_failure skip, not the last step, failed
C9_Witness ==
    \E p \in Procs :
        /\ pc[p] = "done" /\ ret[p].kind = "run"
        /\ ret[p].run.status = "complete"
        /\ Len(ret[p].run.step_results) = 3
        /\ ret[p].run.step_results[1].status = "failed"
        /\ ret[p].run.step_results[1].error = ""
        /\ automations[1].on_failure = "skip"

\* in this step invocation p is called as resume_chain_run for a run that is
\* missing or is not in waiting_approval
ResumeOfNonWaiting(p) ==
    /\ pc[p] = "idle"
    /\ pc'[p] # "idle"
    /\ call'[p].op = "resume_chain_run"
    /\ (store = NoRun \/ store.status # "waiting_approval")

\* C10: resume_chain_run, with either action, for a run that does not exist
\* or whose status is running, complete, failed or cancelled returns an
\* error, invokes no skill and leaves the run store's record unchanged.
C10_ResumeNeedsWaiting ==
    [][ \A p \in Procs :
          ResumeOfNonWaiting(p)
              => /\ pc'[p] = "done"
                 /\ ret'[p].kind = "error"
                 /\ store' = store
                 /\ invoked' = invoked ]_vars

\* C10 witness: a reject call made while another invocation had the run in
\* status running has returned an error
C10_Witness ==
    \E p \in Procs :
        /\ pc[p] = "done"
        /\ call[p].op = "resume_chain_run" /\ call[p].action = "reject"
        /\ call[p].pre.status = "running"
        /\ ret[p].kind = "error"

\* the statuses a run ends in
Terminal == {"complete", "failed", "cancelled"}

\* C11: once the run's record has status complete, failed or cancelled, its
\* completed_at is set and no later execute_chain or resume_chain_run call
\* changes the record.
C11_TerminalRunIsFrozen ==
    [][ (store # NoRun /\ store.status \in Terminal)
            => (store.completed_at /\ store' = store) ]_vars

\* C11 witness: a later execute_chain has run a skill and returned its own
\* run while the followed run's record was cancelled
C11_Witness ==
    \E p \in Procs :
        /\ pc[p] = "done" /\ call[p].op = "execute_chain" /\ ret[p].kind = "run"
        /\ call[p].run_id # FollowedRun
        /\ Len(invoked) > call[p].ninv
        /\ store.status = "cancelled"

\* the run record r holds one step result per attempted step, in step order
OneResultPerStep(r) ==
    /\ Len(r.step_results) <= r.total_steps
    /\ \A n \in 1..Len(r.step_results) : r.step_results[n].step_id = automations[n].id

\* the number of steps the run record r says were attempted and finished
StepsAttempted(r) ==
    IF r.status = "complete" THEN r.total_steps
    ELSE IF r.status = "failed" THEN r.current_step
    ELSE IF r.waiting_step # NoStep THEN r.waiting_step
    ELSE r.current_step - 1

\* C12: in every state of a run, step_results has at most total_steps
\* entries and holds exactly one entry for each step attempted, whether the
\* attempt succeeded, failed, raised or could not resolve its device.
C12_OneResultPerAttempt ==
    /\ store # NoRun => OneResultPerStep(store)
    /\ \A p \in Procs :
          run[p] # NoRun
             => /\ OneResultPerStep(run[p])
                /\ pc[p] = "await" => Len(run[p].step_results) = idx[p]
                /\ pc[p] = "done" => Len(run[p].step_results) = StepsAttempted(run[p])

\* C12 witness: a completed run of three steps holds one result of each
\* other kind: unresolved device, raised error, completed skill
C12_Witness ==
    \E p \in Procs :
        /\ pc[p] = "done" /\ ret[p].kind = "run"
        /\ run[p].status = "complete"
        /\ Len(run[p].step_results) = 3
        /\ \E n \in 1..3 : run[p].step_results[n].error = "Could not resolve device"
        /\ \E n \in 1..3 : run[p].step_results[n].error = "exception"
        /\ \E n \in 1..3 : run[p].step_results[n].status = "complete"

\* the run record r, if waiting for approval, names the step it waits at and
\* holds results for the steps below it only
WaitsBeforeStep(r) ==
    r.status = "waiting_approval"
        => /\ r.waiting_step # NoStep
           /\ r.waiting_step \in StepIdxs
           /\ Len(r.step_results) = r.waiting_step
           /\ \A n \in 1..Len(r.step_results) :
                 r.step_results[n].step_id # automations[r.waiting_step + 1].id

\* C13: whenever a run is in waiting_approval, waiting_step is set and no
\* step result is recorded for the step at that index: step_results holds
\* results for the steps with a lower index only.
C13_WaitingHasNoResultForStep ==
    /\ store # NoRun => WaitsBeforeStep(store)
    /\ \A p \in Procs : run[p] # NoRun => WaitsBeforeStep(run[p])

\* C13 witness: the stored run waits at step 2 after a resume into step 1
C13_Witness ==
    /\ store # NoRun
    /\ store.status = "waiting_approval"
    /\ store.waiting_step = 2
    /\ Len(store.step_results) = 2
    /\ \E k \in 1..Len(invoked) : invoked[k].op = "resume_chain_run"

\* C14: current_step of the run never decreases, across execute_chain and
\* every later resume_chain_run: not in the successive records of the run
\* store, not in an invocation's in-memory run, and not from the stored
\* record to the in-memory run a resume loads from it.
C14_CurrentStepMonotonic ==
    [][ /\ (store # NoRun /\ store' # NoRun)
            => store'.current_step >= store.current_step
        /\ \A p \in Procs :
              /\ (run[p] # NoRun /\ run'[p] # NoRun)
                    => run'[p].current_step >= run[p].current_step
              /\ (run[p] = NoRun /\ run'[p] # NoRun /\ store # NoRun)
                    => run'[p].current_step >= store.current_step ]_vars

\* C14 witness: a resume has taken the stored run from step 2 on to step 3
C14_Witness ==
    \E p \in Procs :
        /\ Resuming(p) /\ pc[p] = "done"
        /\ call[p].pre.current_step = 2
        /\ store.current_step = 3

\* C15: the run is persisted after every step attempt whatever its outcome:
\* when the skill of a step is invoked, the run store's record holds the
\* results of all the steps attempted before it.
C15_PersistedAfterEveryStep ==
    \A p \in Procs :
        (pc[p] = "await" /\ Len(run[p].step_results) >= 1)
            => /\ store # NoRun
               /\ store.step_results = run[p].step_results

\* C16: execute_chain writes the new run to the run store before the first
\* step's skill is invoked: while execute_chain is in a skill, the run has a
\* record in the run store.
C16_RunStoredBeforeFirstSkill ==
    \A p \in Procs :
        (pc[p] = "await" /\ call[p].op = "execute_chain"
           /\ call[p].run_id = FollowedRun)
            => store # NoRun

\* C17: when two resume_chain_run(approve) calls for the same waiting run
\* interleave, at most one of them is in the step loop, and the skill of the
\* step at waiting_step is invoked at most once.
C17_OneResumeAdvances ==
    /\ \A p, q \in Procs :
          (p # q /\ Resuming(p) /\ Resuming(q))
              => ~(pc[p] = "await" /\ pc[q] = "await")
    /\ \A w \in StepIdxs :
          Cardinality({ k \in 1..Len(invoked) :
                          /\ invoked[k].op = "resume_chain_run"
                          /\ invoked[k].start = w
                          /\ invoked[k].step = w }) <= 1

\* C18: with on_gate = auto_approve, execute_chain never pauses: whatever the
\* gates of the chain's steps, the run it works on is never waiting_approval,
\* the run it returns has status complete or failed, and waiting_step is
\* never set.
C18_AutoApproveNeverPauses ==
    \A p \in Procs :
        (pc[p] \in {"await", "done"} /\ call[p].op = "execute_chain"
           /\ call[p].on_gate = "auto_approve" /\ ret[p].kind # "error")
            => /\ run[p].status # "waiting_approval"
               /\ run[p].waiting_step = NoStep
               /\ pc[p] = "done" =>
                     /\ ret[p].run.status \in {"complete", "failed"}
                     /\ ret[p].run.waiting_step = NoStep

\* C18 witness: an auto_approve run of a chain with an approve gate after the
\* first step has returned complete, with the gated step's skill invoked
C18_Witness ==
    \E p \in Procs :
        /\ ExecReturned(p) /\ call[p].on_gate = "auto_approve"
        /\ ret[p].run.status = "complete"
        /\ \E j \in StepIdxs :
              /\ j >= 1 /\ GateOf(j) = "approve"
              /\ \E k \in 1..Len(invoked) :
                    /\ invoked[k].op = "execute_chain"
                    /\ invoked[k].on_gate = "auto_approve"
                    /\ invoked[k].step = j

\* C19: execute_chain for an automation id that has no definition returns an
\* error result, creates no run in the run store and invokes no skill.
C19_NotFoundCreatesNothing ==
    \A p \in Procs :
        (pc[p] = "done" /\ call[p].op = "execute_chain"
           /\ automations = NoAutomation)
            => /\ ret[p].kind = "error"
               /\ ret[p].error = "Automation not found"
               /\ store = NoRun
               /\ store = call[p].pre
               /\ Len(invoked) = call[p].ninv

\* C19 witness: execute_chain has returned for an id without a definition
C19_Witness ==
    \E p \in Procs :
        /\ pc[p] = "done" /\ call[p].op = "execute_chain"
        /\ automations = NoAutomation
        /\ ret[p].kind = "error"

\* ---- device resolution ------------------------------------------------------
\* Chains whose steps take their device from each of the three sources.

MaxDevSteps == 2

\* the device rules of a step: a fixed hostname (empty or not), the device of
\* the first step, a supplied chain parameter, a chain parameter not supplied
DeviceRules ==
    { [device_source |-> "fixed", device_param |-> "device",
       device_hostname |-> "", device_from_step |-> ""],
      [device_source |-> "fixed", device_param |-> "device",
       device_hostname |-> "bigip02", device_from_step |-> ""],
      [device_source |-> "previous_step", device_param |-> "device",
       device_hostname |-> "", device_from_step |-> default_step_id(0)],
      [device_source |-> "parameter", device_param |-> "device",
       device_hostname |-> "", device_from_step |-> ""],
      [device_source |-> "parameter", device_param |-> "target",
       device_hostname |-> "", device_from_step |-> ""] }

\* a stored chain step with the device rule d
DeviceStep(i, g, f, d) ==
    [id |-> default_step_id(i), gate |-> g, on_failure |-> f,
     device_source |-> d.device_source, device_param |-> d.device_param,
     device_hostname |-> d.device_hostname,
     device_from_step |-> d.device_from_step,
     parameters |-> << >>, parameter_map |-> << >>]

DeviceChainsOfLen(n) ==
    LET G == [1..n -> Gates]
        F == [1..n -> OnFailures]
        D == [1..n -> DeviceRules]
    IN { [k \in 1..n |-> DeviceStep(k - 1, g[k], f[k], d[k])] :
            g \in G, f \in F, d \in D }

DeviceChains == UNION { DeviceChainsOfLen(n) : n \in 0..MaxDevSteps }

InitDevice ==
    /\ automations \in DeviceChains
    /\ store = NoRun
    /\ pc = [p \in Procs |-> "idle"]
    /\ run = [p \in Procs |-> NoRun]
    /\ automation = [p \in Procs |-> <<>>]
    /\ start_idx = [p \in Procs |-> 0]
    /\ idx = [p \in Procs |-> 0]
    /\ call = [p \in Procs |-> NoCall]
    /\ ret = [p \in Procs |-> NoRet]
    /\ invoked = <<>>
    /\ execution = NoExecution

SpecDevice == InitDevice /\ [][Next]_vars

\* the step result sr records that the step's device could not be resolved
DeviceUnresolved(sr) == sr.error = "Could not resolve device"

\* a skill has been invoked for the step at index j
InvokedFor(j) == \E k \in 1..Len(invoked) : invoked[k].step = j

\* C20: a step whose device resolves to nothing has no skill invoked and gets
\* exactly one step result, failed, with the error "Could not resolve device";
\* if the step's on_failure is stop the run ends there as failed, otherwise
\* the loop goes on to the next step (or completes after the last one).
C20_UnresolvedDeviceFailsStep ==
    \A p \in Procs :
        (pc[p] \in {"await", "done"} /\ ret[p].kind # "error")
            => LET r == run[p]
                   rs == r.step_results
               IN \A n \in 1..Len(rs) :
                     LET j == StepOfResult(rs[n])
                         step == automations[j + 1]
                     IN /\ resolve_device(step, r.context) = ""
                              => DeviceUnresolved(rs[n])
                        /\ DeviceUnresolved(rs[n]) =>
                              /\ rs[n].status = "failed"
                              /\ rs[n].device = ""
                              /\ ~InvokedFor(j)
                              /\ Cardinality({ m \in 1..Len(rs) :
                                      rs[m].step_id = rs[n].step_id }) = 1
                              /\ step.on_failure = "stop" =>
                                    /\ n = Len(rs)
                                    /\ pc[p] = "done"
                                    /\ r.status = "failed"
                                    /\ r.completed_at
                              /\ step.on_failure # "stop" =>
                                    /\ n = Len(rs) => r.status # "failed"
                                    /\ IF j + 1 < Len(automations)
                                       THEN r.current_step >= j + 2
                                       ELSE r.status = "complete"

\* C20 witness: the first step takes its device from a step that has not run,
\* its on_failure is skip, and the run has completed with the second step's
\* skill invoked and no skill invoked for the first
C20_Witness ==
    \E p \in Procs :
        /\ ExecReturned(p)
        /\ Len(automations) = 2
        /\ automations[1].device_source = "previous_step"
        /\ automations[1].on_failure = "skip"
        /\ ret[p].run.status = "complete"
        /\ Len(ret[p].run.step_results) = 2
        /\ DeviceUnresolved(ret[p].run.step_results[1])
        /\ ret[p].run.step_results[2].status = "complete"
        /\ InvokedFor(1) /\ ~InvokedFor(0)

\* ---- failure policies as the step loop reads them ---------------------------
\* _run_steps reads on_failure with step.get, so a definition file whose step
\* has no on_failure key is an input of the loop as well.

MaxPolicySteps == 2

\* on_failure as _run_steps may find it in a definition file
PolicyValues == {"stop", "skip", Absent}

PolicyChainsOfLen(n) ==
    LET G == [1..n -> Gates]
        F == [1..n -> PolicyValues]
    IN { [k \in 1..n |-> ChainStep(k - 1, g[k], f[k], "device")] :
            g \in G, f \in F }

PolicyChains == UNION { PolicyChainsOfLen(n) : n \in 0..MaxPolicySteps }

InitPolicy ==
    /\ automations \in PolicyChains
    /\ store = NoRun
    /\ pc = [p \in Procs |-> "idle"]
    /\ run = [p \in Procs |-> NoRun]
    /\ automation = [p \in Procs |-> <<>>]
    /\ start_idx = [p \in Procs |-> 0]
    /\ idx = [p \in Procs |-> 0]
    /\ call = [p \in Procs |-> NoCall]
    /\ ret = [p \in Procs |-> NoRet]
    /\ invoked = <<>>
    /\ execution = NoExecution

SpecPolicy == InitPolicy /\ [][Next]_vars

\* what _run_steps does when the skill awaited by invocation p ends with outcome
IfSkill(p, outcome) ==
    after_step(automation[p], run[p], store, idx[p], start_idx[p],
               call[p].on_gate, outcome)

MaxClusterSteps == 2

\* get_cluster() returned None: no such cluster
NoCluster == [id |-> "<none>"]

\* get_cluster_params() returned None
NoParams == <<>>

\* the cluster pool as get_cluster finds it: no cluster, or one cluster "cl1"
Clusters ==
    {NoCluster} \cup
    { [id |-> "cl1", local_asn |-> a, frr_ip |-> "10.0.0.9"] :
         a \in {"65001", "65002"} }

\* the chain parameters a caller may supply: device always, the others or not
CallerParams ==
    LET Opt(k, V) == {<<>>} \cup { k :> v : v \in V }
    IN { ("device" :> "bigip01") @@ c @@ a @@ f :
            c \in Opt("cluster_id", {"", "cl1", "cl7"}),
            a \in Opt("local_asn", {"65001", "65002"}),
            f \in Opt("frr_ip", {"10.0.0.1"}) }

\* get_cluster_params: the cluster's configuration flattened into one map
get_cluster_params(cluster_id, cluster) ==
    IF cluster = NoCluster \/ cluster.id # cluster_id
    THEN NoParams
    ELSE [cluster_id |-> cluster_id, local_asn |-> cluster.local_asn,
          frr_ip |-> cluster.frr_ip]

\* mutant: the pool's values overwrite the caller's
chain_context_pool_wins(chain_params, cluster) ==
    LET cluster_id == IF "cluster_id" \in DOMAIN chain_params
                      THEN chain_params["cluster_id"] ELSE ""
        cluster_params == get_cluster_params(cluster_id, cluster)
    IN IF cluster_id # "" /\ cluster_params # NoParams
       THEN cluster_params @@ chain_params
       ELSE chain_params

\* chain_context of execute_chain: {**cluster_params, **chain_context}
chain_context(chain_params, cluster) ==
    LET cluster_id == IF "cluster_id" \in DOMAIN chain_params
                      THEN chain_params["cluster_id"] ELSE ""
        cluster_params == get_cluster_params(cluster_id, cluster)
    IN IF cluster_id # "" /\ cluster_params # NoParams
       THEN chain_params @@ cluster_params
       ELSE chain_params

\* execute_chain with the caller's chain parameters and the cluster pool
ExecuteChainCluster(p, on_gate, chain_params, cluster) ==
    /\ pc[p] = "idle"
    /\ automations # NoAutomation
    /\ store = NoRun
    /\ \A q \in Procs : call[q].op # "execute_chain"
    /\ Enter(p, automations,
             new_run(automations, chain_context(chain_params, cluster)), 0,
             [op |-> "execute_chain", action |-> "", on_gate |-> on_gate,
              pre |-> store, ninv |-> Len(invoked),
              run_id |-> new_run_id({}),
              chain_params |-> chain_params, cluster |-> cluster])

InitCluster ==
    /\ Init
    /\ Len(automations) <= MaxClusterSteps
    /\ \A k \in 1..Len(automations) : automations[k].device_param = "device"

NextCluster ==
    \/ \E p \in Procs, g \in OnGates, cp \in CallerParams, cl \in Clusters :
          Sequential(p) /\ ExecuteChainCluster(p, g, cp, cl)
    \/ \E p \in Procs, o \in ConcOutcomes : SkillReturns(p, o)
    \/ \E p \in Procs : Return(p)

SpecCluster == InitCluster /\ [][NextCluster]_vars

\* invocation p is an execute_chain whose cluster_id names a cluster of the pool
WithCluster(p) ==
    /\ pc[p] \in {"await", "done"}
    /\ call[p].op = "execute_chain"
    /\ "cluster_id" \in DOMAIN call[p].chain_params
    /\ call[p].cluster # NoCluster
    /\ call[p].chain_params["cluster_id"] = call[p].cluster.id

\* the keys get_cluster_params returns
PoolKeys == {"cluster_id", "local_asn", "frr_ip"}

\* C22: when chain_params has a cluster_id and the pool returns parameters,
\* the chain context of the run has every key of both maps, and each key the
\* caller supplied has the caller's value, never the pool's.
C22_CallerParamsWinOverPool ==
    \A p \in Procs :
        WithCluster(p)
            => LET chain == run[p].context.chain
                   cp == call[p].chain_params
               IN /\ DOMAIN chain = DOMAIN cp \cup PoolKeys
                  /\ \A k \in DOMAIN cp : chain[k] = cp[k]
                  /\ \A k \in PoolKeys \ DOMAIN cp : chain[k] = call[p].cluster[k]

\* C22 witness: the caller's local_asn differs from the pool's, the pool's
\* frr_ip is not supplied by the caller, and the run has completed
C22_Witness ==
    \E p \in Procs :
        /\ WithCluster(p) /\ pc[p] = "done"
        /\ "local_asn" \in DOMAIN call[p].chain_params
        /\ call[p].chain_params["local_asn"] # call[p].cluster.local_asn
        /\ "frr_ip" \notin DOMAIN call[p].chain_params
        /\ run[p].context.chain["frr_ip"] = call[p].cluster.frr_ip
        /\ run[p].status = "complete"

\* ---- step parameters and output forwarding ----------------------------------
\* Chains whose last step has templates in parameters / parameter_map, and
\* skill executions that produce output.

MaxParamSteps == 2

\* _execute_step: the output kept in the context entry, parsed if a JSON object
context_output(combined_output) ==
    LET parsed == json_loads(combined_output)
    IN IF parsed.t = "dict" THEN parsed ELSE PyStr(combined_output)

\* the paths the templates of the chains refer to
TemplatePaths ==
    { <<"steps", "step-1", "output", "mgmt_ip">>,
      <<"steps", "step-1", "output", "vmid">>,
      <<"steps", "step-1", "output", "count">>,
      <<"steps", "step-1", "output", "missing">>,
      <<"steps", "step-1", "output">>,
      <<"steps", "step-1", "status">>,
      <<"steps", "step-1", "missing">>,
      <<"steps", "step-9", "output", "x">>,
      <<"steps", "step-9", "output">>,
      <<"chain", "device">>,
      <<"chain", "missing">>,
      <<"chain", "missing", "x">> }

\* a template is one placeholder, alone or inside literal text
Templates ==
    { << Ref(path) >> : path \in TemplatePaths }
      \cup { << Lit("ip="), Ref(path), Lit("/24") >> :
                path \in { <<"steps", "step-1", "output", "mgmt_ip">>,
                           <<"chain", "missing">> } }

\* the parameters of a step that has any
StepParameters == { << >> } \cup { "target" :> t : t \in Templates }

\* the parameter_map of a step that has any
StepParameterMaps ==
    { << >>, "device" :> << Lit("bigip02") >>, "target" :> << Lit("10.9.9.9") >> }

\* a stored chain step with parameters and parameter_map
ParamStep(i, g, ps, pm) ==
    [id |-> default_step_id(i), gate |-> g, on_failure |-> "skip",
     device_source |-> "parameter", device_param |-> "device",
     device_hostname |-> "", device_from_step |-> "",
     parameters |-> ps, parameter_map |-> pm]

\* chains of n steps: the last step carries the templates
ParamChainsOfLen(n) ==
    { [k \in 1..n |-> ParamStep(k - 1, g[k],
                                IF k = n THEN ps ELSE << >>,
                                IF k = n THEN pm ELSE << >>)] :
         g \in [1..n -> Gates], ps \in StepParameters, pm \in StepParameterMaps }

ParamChains == UNION { ParamChainsOfLen(n) : n \in 1..MaxParamSteps }

\* what a skill execution hands back here: its status and combined output
ParamOutcomes ==
    { <<"complete", ObjectText>>, <<"complete", MixedText>>, <<"complete", "">>,
      <<"failed", ObjectText>>, <<"failed", "">> }

\* the context entry of step_id in the run r gets the output of the execution
with_output(r, step_id, output) ==
    IF r = NoRun \/ step_id \notin DOMAIN r.context.steps
    THEN r
    ELSE [r EXCEPT !.context.steps[step_id] =
                     [status |-> @.status, device |-> @.device, output |-> output]]

\* executor.execute_skill returns a result with output and _run_steps goes on
SkillReturnsOutput(p, status, combined_output) ==
    /\ pc[p] = "await"
    /\ LET step == automation[p][idx[p] + 1]
           o == after_step(automation[p], run[p], store, idx[p], start_idx[p],
                           call[p].on_gate, status)
           r == with_output(o.run, step.id, context_output(combined_output))
           st == with_output(o.store, step.id, context_output(combined_output))
       IN /\ pc' = [pc EXCEPT ![p] = o.pc]
          /\ run' = [run EXCEPT ![p] = r]
          /\ store' = IF call[p].run_id = FollowedRun THEN st ELSE store
          /\ idx' = [idx EXCEPT ![p] = o.idx]
          /\ ret' = [ret EXCEPT ![p] =
                       IF o.pc = "done" THEN [kind |-> "run", run |-> r] ELSE NoRet]
          /\ invoked' = IF o.pc = "await"
                        THEN Append(invoked, [proc |-> p, op |-> call[p].op,
                                              on_gate |-> call[p].on_gate,
                                              start |-> start_idx[p], step |-> o.idx,
                                              run_id |-> call[p].run_id,
                                              params |-> build_step_params(
                                                           automation[p][o.idx + 1],
                                                           r.context)])
                        ELSE invoked
    /\ UNCHANGED <<execution, automations, automation, start_idx, call>>

InitParams ==
    /\ automations \in ParamChains
    /\ store = NoRun
    /\ pc = [p \in Procs |-> "idle"]
    /\ run = [p \in Procs |-> NoRun]
    /\ automation = [p \in Procs |-> <<>>]
    /\ start_idx = [p \in Procs |-> 0]
    /\ idx = [p \in Procs |-> 0]
    /\ call = [p \in Procs |-> NoCall]
    /\ ret = [p \in Procs |-> NoRet]
    /\ invoked = <<>>
    /\ execution = NoExecution

NextParams ==
    \/ \E p \in Procs, g \in OnGates : Sequential(p) /\ ExecuteChain(p, g)
    \/ \E p \in Procs : Sequential(p) /\ ResumeApprove(p)
    \/ \E p \in Procs, o \in ParamOutcomes : SkillReturnsOutput(p, o[1], o[2])
    \/ \E p \in Procs : SkillReturns(p, Raises)
    \/ \E p \in Procs : Return(p)

SpecParams == InitParams /\ [][NextParams]_vars

\* the skill invocation that invocation p is suspended in
CurrentInvocation(p) == invoked[Len(invoked)]

\* C23: the parameters passed to a step's skill are every chain-context key
\* with its chain value, overridden for each key of the step's parameters or
\* parameter_map by that entry's template resolved against the run context
\* (chain parameters plus the context entries of all steps executed before);
\* an explicit entry wins over the chain value of the same key.
C23_StepParamsOverlayChain ==
    \A p \in Procs :
        pc[p] = "await"
            => LET e == CurrentInvocation(p)
                   step == automation[p][idx[p] + 1]
                   ctx == run[p].context
                   rs == run[p].step_results
               IN /\ e.proc = p /\ e.step = idx[p]
                  /\ DOMAIN e.params = DOMAIN ctx.chain \cup DOMAIN step.parameters
                                          \cup DOMAIN step.parameter_map
                  /\ \A k \in DOMAIN step.parameter_map :
                        e.params[k] = resolve_template(step.parameter_map[k], ctx)
                  /\ \A k \in DOMAIN step.parameters \ DOMAIN step.parameter_map :
                        e.params[k] = resolve_template(step.parameters[k], ctx)
                  /\ \A k \in DOMAIN ctx.chain \ (DOMAIN step.parameters
                                                    \cup DOMAIN step.parameter_map) :
                        e.params[k] = ctx.chain[k]
                  /\ \A n \in 1..Len(rs) :
                        rs[n].error = "" => rs[n].step_id \in DOMAIN ctx.steps

\* C23 witness: the second step's skill is invoked with target resolved from
\* the first step's output and with device overridden by its parameter_map,
\* while the chain context says device = bigip01
C23_Witness ==
    \E p \in Procs :
        /\ pc[p] = "await" /\ idx[p] = 1
        /\ automation[p][2].parameters =
              ("target" :> << Ref(<<"steps", "step-1", "output", "mgmt_ip">>) >>)
        /\ automation[p][2].parameter_map = ("device" :> << Lit("bigip02") >>)
        /\ run[p].context.chain["device"] = "bigip01"
        /\ CurrentInvocation(p).params["target"] = "10.0.0.5"
        /\ CurrentInvocation(p).params["device"] = "bigip02"

\* the step invoked by invocation p maps target to the one placeholder path
TargetIs(p, path) ==
    /\ pc[p] = "await"
    /\ "target" \in DOMAIN automation[p][idx[p] + 1].parameters
    /\ "target" \notin DOMAIN automation[p][idx[p] + 1].parameter_map
    /\ automation[p][idx[p] + 1].parameters["target"] = << Ref(path) >>

\* C24: if the executed step step-1 produced a JSON object with key K and
\* value V, then in every later step of the run, also after a pause and a
\* resume, the template {{steps.step-1.output.K}} resolves to the string
\* form of V.
C24_OutputRoundTrip ==
    \A p \in Procs :
        \A K \in DOMAIN OutputObject.d :
            ( /\ TargetIs(p, <<"steps", "step-1", "output", K>>)
              /\ idx[p] >= 1
              /\ "step-1" \in DOMAIN run[p].context.steps
              /\ run[p].context.steps["step-1"].output = OutputObject )
                => CurrentInvocation(p).params["target"] = py_str(OutputObject.d[K])

\* the placeholder paths that go into the output of a step
StepOutputPaths ==
    { path \in TemplatePaths : Len(path) >= 3 /\ path[1] = "steps" /\ path[3] = "output" }

\* C25: a template that refers to the output of a step that has no context
\* entry, such as {{steps.step-9.output.x}}, resolves to the placeholder text
\* itself, not to the empty string, and the run goes on to invoke the skill.
C25_UnknownStepKeepsPlaceholder ==
    \A p \in Procs :
        \A path \in StepOutputPaths :
            (TargetIs(p, path) /\ path[2] \notin DOMAIN run[p].context.steps)
                => /\ CurrentInvocation(p).params["target"] = placeholder(path)
                   /\ CurrentInvocation(p).params["target"] # ""
                   /\ CurrentInvocation(p).step = idx[p]

\* C25 witness: a step is invoked with target = "{{steps.step-9.output.x}}"
C25_Witness ==
    \E p \in Procs :
        /\ TargetIs(p, <<"steps", "step-9", "output", "x">>)
        /\ "step-9" \notin DOMAIN run[p].context.steps
        /\ CurrentInvocation(p).params["target"] = "{{steps.step-9.output.x}}"

\* C26: when the walk of a placeholder path meets a key that is missing from
\* a mapping, at any position of the path including the last segment
\* ({{chain.missing}}, {{chain.missing.x}}, {{steps.step-1.output.missing}}
\* with a parsed-object output), the placeholder text stays in the result.
C26_MissingKeyKeepsPlaceholder ==
    \A p \in Procs :
        /\ \A path \in { <<"chain", "missing">>, <<"chain", "missing", "x">> } :
              TargetIs(p, path)
                  => CurrentInvocation(p).params["target"] = placeholder(path)
        /\ ( /\ TargetIs(p, <<"steps", "step-1", "output", "missing">>)
             /\ "step-1" \in DOMAIN run[p].context.steps
             /\ run[p].context.steps["step-1"].output.t = "dict" )
               => CurrentInvocation(p).params["target"] =
                     placeholder(<<"steps", "step-1", "output", "missing">>)

\* ---- editing a definition that a run refers to ------------------------------

MaxUpdateSteps == 2

\* _normalize_steps: ids and defaults for the steps a caller sends
normalize_steps(steps) ==
    [k \in 1..Len(steps) |->
        [steps[k] EXCEPT !.id = IF @ = "" THEN default_step_id(k - 1) ELSE @,
                         !.gate = IF @ = Absent THEN "auto" ELSE @,
                         !.on_failure = IF @ = Absent THEN "stop" ELSE @]]

\* the steps a caller may send to update_automation
UpdateSteps ==
    UNION { { [k \in 1..n |-> [ChainStep(k - 1, g[k], f[k], "device") EXCEPT !.id = ""]] :
                 g \in [1..n -> Gates \cup {Absent}], f \in [1..n -> PolicyValues] } :
            n \in 0..MaxUpdateSteps }

\* update_automation(automation_id, {"steps": steps})
UpdateAutomation(steps) ==
    /\ automations # NoAutomation
    /\ \A q \in Procs : pc[q] = "idle"
    /\ automations' = normalize_steps(steps)
    /\ UNCHANGED <<execution, store, pc, run, automation, start_idx, idx, call, ret, invoked>>

\* delete_automation(automation_id)
DeleteAutomation ==
    /\ automations # NoAutomation
    /\ \A q \in Procs : pc[q] = "idle"
    /\ automations' = NoAutomation
    /\ UNCHANGED <<execution, store, pc, run, automation, start_idx, idx, call, ret, invoked>>

\* resume_chain_run(approve): the definition of the run's automation is gone
ResumeNoDefinition(p) ==
    /\ pc[p] = "idle"
    /\ store # NoRun
    /\ store.status = "waiting_approval"
    /\ automations = NoAutomation
    /\ pc' = [pc EXCEPT ![p] = "done"]
    /\ call' = [call EXCEPT ![p] =
                  [op |-> "resume_chain_run", action |-> "approve", on_gate |-> "pause",
                   pre |-> store, ninv |-> Len(invoked),
                   run_id |-> FollowedRun]]
    /\ ret' = [ret EXCEPT ![p] =
                 [kind |-> "error", error |-> "Automation definition not found"]]
    /\ UNCHANGED <<execution, automations, store, run, automation, start_idx, idx, invoked>>

\* the run starts from the chain [A auto/stop, B approve/stop]
InitChange ==
    /\ automations = ChainAB
    /\ store = NoRun
    /\ pc = [p \in Procs |-> "idle"]
    /\ run = [p \in Procs |-> NoRun]
    /\ automation = [p \in Procs |-> <<>>]
    /\ start_idx = [p \in Procs |-> 0]
    /\ idx = [p \in Procs |-> 0]
    /\ call = [p \in Procs |-> NoCall]
    /\ ret = [p \in Procs |-> NoRet]
    /\ invoked = <<>>
    /\ execution = NoExecution

\* the definition is edited or deleted once the run exists
NextChange ==
    \/ \E p \in Procs, g \in OnGates : Sequential(p) /\ ExecuteChain(p, g)
    \/ \E steps \in UpdateSteps : store # NoRun /\ UpdateAutomation(steps)
    \/ store # NoRun /\ DeleteAutomation
    \/ \E p \in Procs : Sequential(p) /\ ResumeApprove(p)
    \/ \E p \in Procs : Sequential(p) /\ ResumeNoDefinition(p)
    \/ \E p \in Procs, o \in ConcOutcomes : SkillReturns(p, o)
    \/ \E p \in Procs : Return(p)

SpecChange == InitChange /\ [][NextChange]_vars

\* C27: once a run of the chain exists, update_automation and
\* delete_automation do not change the steps that a later
\* resume_chain_run(approve) of that run executes: the resume finds the
\* definition and works on the steps the run was started with.
C27_DefinitionFrozenForRun ==
    \A p \in Procs :
        (pc[p] \in {"await", "done"} /\ ResumeOfWaiting(p, "approve"))
            => /\ ret[p].kind # "error"
               /\ automation[p] = ChainAB

\* ---- executor.py: execute_skill ---------------------------------------------

MaxSkillSteps == 3

\* get_skill() returned None
NoSkill == [steps |-> << >>, analysis |-> FALSE, found |-> FALSE]

\* the name the skill catalog knows, and one it does not
KnownSkill == "bigip-replica-provision"

SkillNames == {KnownSkill, "no-such-skill"}

StepNames == <<"allocate", "clone", "configure", "verify", "report">>

\* the skills of n steps: each step may carry continue_on_fail
SkillsOfLen(n) ==
    { [steps |-> [k \in 1..n |-> [name |-> StepNames[k], continue_on_fail |-> c[k]]],
       analysis |-> an, found |-> TRUE] :
         c \in [1..n -> BOOLEAN], an \in BOOLEAN }

Skills == UNION { SkillsOfLen(n) : n \in 0..MaxSkillSteps }

\* the parameters a caller may send with the request
RequestParameters ==
    { << >>, "vmid" :> PyStr("100"), "new_vmid" :> PyStr("7") }

\* what a transport hands back: a result dict (success, output), or it raises
TransportResults ==
    { [success |-> ok, output |-> text] :
         ok \in BOOLEAN, text \in {VmidText, ReplicaText, AliasText, "ok", ""} }

\* get_skill(name) against the catalog
get_skill(catalog, skill_name) == IF skill_name = KnownSkill THEN catalog ELSE NoSkill

\* _save_execution(result); return result
save_execution(e) ==
    [e EXCEPT !.pc = "done", !.history = Append(@, e.result)]

\* result.status = FAILED; result.error = ...; then the end of execute_skill
fail(e, error) ==
    save_execution([e EXCEPT !.result.status = "failed", !.result.error = error])

\* after the loop: COMPLETE, the analysis if the skill has one, save, return
finish(e) ==
    IF e.result.status = "failed"
    THEN save_execution(e)
    ELSE IF e.skill.analysis
         THEN [e EXCEPT !.pc = "analysis", !.result.status = "analyzing"]
         ELSE save_execution([e EXCEPT !.result.status = "complete"])

\* the top of the loop for step k: the step result is appended as RUNNING and
\* the transport is called
begin_step(e, k) ==
    IF k > Len(e.skill.steps)
    THEN finish(e)
    ELSE [e EXCEPT !.pc = "transport",
                   !.step = k,
                   !.result.steps = Append(@, [step_name |-> e.skill.steps[k].name,
                                               status |-> "running",
                                               output |-> "", error |-> ""]),
                   !.transport_calls = Append(@, [step |-> k,
                                                  params |-> e.running_params])]

\* mutant: the first writer of a key wins
merge_output_first_wins(running_params, success, output) ==
    LET parsed == json_loads(output)
    IN IF success /\ output # "" /\ parsed.t = "dict"
       THEN LET merged == running_params @@ parsed.d
            IN IF "vmid" \in DOMAIN parsed.d /\ "new_vmid" \notin DOMAIN merged
               THEN ("new_vmid" :> parsed.d["vmid"]) @@ merged
               ELSE merged
       ELSE running_params

\* mutant: the alias new_vmid follows every vmid
merge_output_alias_follows(running_params, success, output) ==
    LET parsed == json_loads(output)
    IN IF success /\ output # "" /\ parsed.t = "dict"
       THEN LET merged == parsed.d @@ running_params
            IN IF "vmid" \in DOMAIN parsed.d
               THEN ("new_vmid" :> parsed.d["vmid"]) @@ merged
               ELSE merged
       ELSE running_params

\* running_params.update(parsed), and the alias new_vmid
merge_output(running_params, success, output) ==
    LET parsed == json_loads(output)
    IN IF success /\ output # "" /\ parsed.t = "dict"
       THEN LET merged == parsed.d @@ running_params
            IN IF "vmid" \in DOMAIN parsed.d /\ "new_vmid" \notin DOMAIN merged
               THEN ("new_vmid" :> parsed.d["vmid"]) @@ merged
               ELSE merged
       ELSE running_params

\* execute_skill(request) up to the await of get_device_credentials
ExecuteSkill(skill_name, device, parameters) ==
    /\ execution.pc = "idle"
    /\ LET skill == get_skill(execution.catalog, skill_name)
           e == [execution EXCEPT
                    !.request = [skill_name |-> skill_name, device_hostname |-> device,
                                 parameters |-> parameters],
                    !.skill = skill,
                    !.result = [status |-> "running", error |-> "", steps |-> << >>,
                                analysis |-> ""]]
       IN execution' = IF ~skill.found
                       THEN fail(e, "Skill not found")
                       ELSE [e EXCEPT !.pc = "credentials"]
    /\ UNCHANGED <<automations, store, pc, run, automation, start_idx, idx, call, ret,
                   invoked>>

\* mutant: the steps are run whether or not there are credentials
CredentialsReturn_unchecked(found) ==
    /\ execution.pc = "credentials"
    /\ execution' =
          begin_step([execution EXCEPT
                         !.creds = IF found THEN "found" ELSE "none",
                         !.running_params = execution.request.parameters], 1)
    /\ UNCHANGED <<automations, store, pc, run, automation, start_idx, idx, call, ret,
                   invoked>>

\* get_device_credentials returns: the credentials, or nothing
CredentialsReturn(found) ==
    /\ execution.pc = "credentials"
    /\ execution' =
          IF ~found
          THEN fail([execution EXCEPT !.creds = "none"],
                    "No credentials found for device")
          ELSE begin_step([execution EXCEPT
                              !.creds = "found",
                              !.running_params = execution.request.parameters], 1)
    /\ UNCHANGED <<automations, store, pc, run, automation, start_idx, idx, call, ret,
                   invoked>>

\* the transport of the current step returns a result dict
TransportReturns(res) ==
    /\ execution.pc = "transport"
    /\ LET k == execution.step
           step_def == execution.skill.steps[k]
           error == IF res.success THEN "" ELSE "command failed"
           e1 == [execution EXCEPT
                     !.result.steps[k].status =
                         IF res.success THEN "complete" ELSE "failed",
                     !.result.steps[k].output = res.output,
                     !.result.steps[k].error = error,
                     !.running_params = merge_output(@, res.success, res.output)]
       IN execution' =
             IF res.success
             THEN begin_step(e1, k + 1)
             ELSE IF step_def.continue_on_fail
                  THEN begin_step(
                         [e1 EXCEPT !.result.steps[k].output =
                             @ \o "\n[Step failed but allowed to continue: "
                               \o error \o "]"], k + 1)
                  ELSE fail(e1, "Step failed")
    /\ UNCHANGED <<automations, store, pc, run, automation, start_idx, idx, call, ret,
                   invoked>>

\* the transport of the current step raises
TransportRaises ==
    /\ execution.pc = "transport"
    /\ LET k == execution.step
       IN execution' =
             fail([execution EXCEPT !.result.steps[k].status = "failed",
                                    !.result.steps[k].error = "exception"],
                  "Step exception")
    /\ UNCHANGED <<automations, store, pc, run, automation, start_idx, idx, call, ret,
                   invoked>>

\* mutant: the analysis text is attached but the status is left as it was
AnalysisReturns_unfinished ==
    /\ execution.pc = "analysis"
    /\ execution' = save_execution([execution EXCEPT !.result.analysis = "analysis text"])
    /\ UNCHANGED <<automations, store, pc, run, automation, start_idx, idx, call, ret,
                   invoked>>

\* _run_analysis returns its text
AnalysisReturns ==
    /\ execution.pc = "analysis"
    /\ execution' = save_execution([execution EXCEPT !.result.analysis = "analysis text",
                                                     !.result.status = "complete"])
    /\ UNCHANGED <<automations, store, pc, run, automation, start_idx, idx, call, ret,
                   invoked>>

InitSkill ==
    /\ automations = NoAutomation
    /\ store = NoRun
    /\ pc = [p \in Procs |-> "idle"]
    /\ run = [p \in Procs |-> NoRun]
    /\ automation = [p \in Procs |-> <<>>]
    /\ start_idx = [p \in Procs |-> 0]
    /\ idx = [p \in Procs |-> 0]
    /\ call = [p \in Procs |-> NoCall]
    /\ ret = [p \in Procs |-> NoRet]
    /\ invoked = << >>
    /\ \E catalog \in Skills :
          execution = [pc |-> "idle", catalog |-> catalog, skill |-> NoSkill,
                       request |-> [skill_name |-> "", device_hostname |-> "",
                                    parameters |-> << >>],
                       result |-> [status |-> "pending", error |-> "", steps |-> << >>,
                                   analysis |-> ""],
                       creds |-> "not asked",
                       running_params |-> << >>, step |-> 0,
                       transport_calls |-> << >>, history |-> << >>]

NextSkill ==
    \/ \E n \in SkillNames, ps \in RequestParameters : ExecuteSkill(n, "bigip01", ps)
    \/ \E found \in BOOLEAN : CredentialsReturn(found)
    \/ \E res \in TransportResults : TransportReturns(res)
    \/ TransportRaises
    \/ AnalysisReturns

SpecSkill == InitSkill /\ [][NextSkill]_vars

\* the skill execution followed has returned its result
SkillReturned == execution.pc = "done"

\* C28: execute_skill with a skill name that is not in the catalog, or with a
\* device for which the credential store returns nothing, returns a result
\* with status failed and an error text, with no step results, and no
\* transport has been called.
C28_UnknownSkillOrDeviceFails ==
    (SkillReturned /\ (~execution.skill.found \/ execution.creds = "none"))
        => /\ execution.result.status = "failed"
           /\ execution.result.error # ""
           /\ execution.result.steps = << >>
           /\ execution.transport_calls = << >>
           /\ execution.history = << execution.result >>

\* C28 witness: a known skill with steps, but no credentials for the device
C28_Witness ==
    /\ SkillReturned
    /\ execution.skill.found /\ Len(execution.skill.steps) >= 1
    /\ execution.creds = "none"
    /\ execution.result.error = "No credentials found for device"

\* the step results are those of the first steps of the skill, in step order
InStepOrder(e) ==
    /\ Len(e.result.steps) <= Len(e.skill.steps)
    /\ \A k \in 1..Len(e.result.steps) :
          e.result.steps[k].step_name = e.skill.steps[k].name

\* C29: within one skill execution, when a step fails: if its
\* continue_on_fail flag is set the next step is attempted; otherwise the
\* execution stops at once with overall status failed, no later step's
\* transport is called, and every step result gathered so far, the failed one
\* included, is kept in the result in step order.
C29_ContinueOnFailOrStop ==
    execution.pc \in {"transport", "analysis", "done"}
        => /\ InStepOrder(execution)
           /\ \A k \in 1..Len(execution.result.steps) :
                 execution.result.steps[k].status = "failed"
                     => IF execution.skill.steps[k].continue_on_fail
                        THEN k < Len(execution.skill.steps)
                                => /\ Len(execution.result.steps) >= k + 1
                                   /\ \E c \in 1..Len(execution.transport_calls) :
                                         execution.transport_calls[c].step = k + 1
                        ELSE /\ execution.pc = "done"
                             /\ execution.result.status = "failed"
                             /\ Len(execution.result.steps) = k
                             /\ Len(execution.transport_calls) = k

\* the keys and values step j of the execution e gave to the context: those
\* of its output if it succeeded and printed a JSON object, none otherwise
Produced(e, j) ==
    LET sr == e.result.steps[j]
        parsed == json_loads(sr.output)
    IN IF sr.status = "complete" /\ parsed.t = "dict" THEN parsed.d ELSE << >>

\* the keys the caller or a step before step n supplied
SuppliedKeys(e, n) ==
    DOMAIN e.request.parameters \cup UNION { DOMAIN Produced(e, j) : j \in 1..(n - 1) }

\* the value of key at step n: that of the latest step before n that produced
\* it, else the caller's
LatestValue(e, n, key) ==
    LET J == { j \in 1..(n - 1) : key \in DOMAIN Produced(e, j) }
    IN IF J = {} THEN e.request.parameters[key]
       ELSE Produced(e, CHOOSE j \in J : \A m \in J : m <= j)[key]

\* C30 as stated: at every step the running parameter context holds exactly
\* the caller's keys and the keys of the JSON-object outputs of the
\* successful steps before it, each with the value of the latest such step
\* (else the caller's value).
C30_AsStated ==
    execution.pc \in {"transport", "analysis", "done"}
        => \A c \in 1..Len(execution.transport_calls) :
              LET call_c == execution.transport_calls[c]
              IN /\ DOMAIN call_c.params = SuppliedKeys(execution, call_c.step)
                 /\ \A key \in DOMAIN call_c.params :
                       call_c.params[key] = LatestValue(execution, call_c.step, key)

\* C30 (amended): at every step each key the caller or an earlier successful
\* JSON-object output supplied has the value of the latest such output (else
\* the caller's), failed steps change nothing, and the only other key the
\* context can hold is new_vmid, set from the vmid of an earlier output.
C30_LastWriterWins ==
    execution.pc \in {"transport", "analysis", "done"}
        => \A c \in 1..Len(execution.transport_calls) :
              LET call_c == execution.transport_calls[c]
                  n == call_c.step
                  supplied == SuppliedKeys(execution, n)
              IN /\ supplied \subseteq DOMAIN call_c.params
                 /\ DOMAIN call_c.params \subseteq supplied \cup {"new_vmid"}
                 /\ \A key \in supplied :
                       call_c.params[key] = LatestValue(execution, n, key)
                 /\ "new_vmid" \in DOMAIN call_c.params \ supplied
                       => \E j \in 1..(n - 1) :
                             /\ "vmid" \in DOMAIN Produced(execution, j)
                             /\ call_c.params["new_vmid"] = Produced(execution, j)["vmid"]

\* C30 witness: the caller sent vmid, the first two steps succeeded with
\* {"vmid": 110} and then {"vmid": 120, ...}, and the third step sees 120
C30_Witness ==
    /\ execution.pc = "transport" /\ execution.step = 3
    /\ execution.request.parameters = ("vmid" :> PyStr("100"))
    /\ execution.result.steps[1].output = VmidText
    /\ execution.result.steps[2].output = ReplicaText
    /\ execution.transport_calls[3].params["vmid"] = PyInt(120)
    /\ execution.transport_calls[2].params["vmid"] = PyInt(110)

\* a step ended the execution e: it failed without continue_on_fail, or its
\* transport raised
StoppingFailure(e) ==
    \E k \in 1..Len(e.result.steps) :
        /\ e.result.steps[k].status = "failed"
        /\ \/ ~e.skill.steps[k].continue_on_fail
           \/ e.result.steps[k].error = "exception"

\* every step of the skill has a result and none of them stopped the execution
AllStepsFinished(e) ==
    /\ Len(e.result.steps) = Len(e.skill.steps)
    /\ \A k \in 1..Len(e.result.steps) : e.result.steps[k].status \in {"complete", "failed"}
    /\ ~StoppingFailure(e)

\* the status analyzing is entered only after all steps, and left for complete
AnalyzingOnlyAfterSteps ==
    execution.pc # "none" /\ execution.result.status = "analyzing"
        => /\ execution.pc = "analysis"
           /\ AllStepsFinished(execution)

AnalyzingThenComplete ==
    (execution.pc # "none" /\ execution.result.status = "analyzing")
        => /\ execution'.pc = "done"
           /\ execution'.result.status = "complete"

\* C31 as stated: every execute_skill call returns with status complete or
\* failed; the status is complete exactly when no step ended the execution
\* with a stopping failure; analyzing is entered only after all steps have
\* finished without a stopping failure and is always followed by complete.
C31_AsStated ==
    /\ [](SkillReturned
            => /\ execution.result.status \in {"complete", "failed"}
               /\ execution.result.status = "complete"
                     <=> ~StoppingFailure(execution))
    /\ []AnalyzingOnlyAfterSteps
    /\ [][AnalyzingThenComplete]_vars

\* C31 (amended): every execute_skill call returns with status complete or
\* failed; the status is complete exactly when the skill and the device
\* credentials were found and no step ended the execution with a stopping
\* failure; analyzing is entered only after all steps have finished without
\* a stopping failure and is always followed by complete.
C31_CompleteOrFailed ==
    /\ [](SkillReturned
            => /\ execution.result.status \in {"complete", "failed"}
               /\ execution.result.status = "complete"
                     <=> /\ execution.skill.found
                         /\ execution.creds = "found"
                         /\ ~StoppingFailure(execution))
    /\ []AnalyzingOnlyAfterSteps
    /\ [][AnalyzingThenComplete]_vars

\* C31 witness: a skill with analysis whose first step failed with
\* continue_on_fail and whose second succeeded has returned complete with
\* the analysis attached
C31_Witness ==
    /\ SkillReturned
    /\ execution.skill.analysis
    /\ Len(execution.result.steps) = 2
    /\ execution.result.steps[1].status = "failed"
    /\ execution.result.steps[2].status = "complete"
    /\ execution.result.status = "complete"
    /\ execution.result.analysis = "analysis text"

\* the running parameter context once step k of the execution e has finished
ContextAfter(e, k) ==
    IF k < Len(e.transport_calls) THEN e.transport_calls[k + 1].params
    ELSE e.running_params

\* step k of the execution e has finished
StepFinished(e, k) ==
    k < Len(e.transport_calls) \/ (k = Len(e.transport_calls) /\ e.pc \in {"analysis", "done"})

\* step k succeeded and its output is a JSON object that contains vmid
GaveVmid(e, k) ==
    /\ StepFinished(e, k)
    /\ e.result.steps[k].status = "complete"
    /\ json_loads(e.result.steps[k].output).t = "dict"
    /\ "vmid" \in DOMAIN json_loads(e.result.steps[k].output).d

\* C34: after a successful step whose JSON-object output contains vmid the
\* running parameter context contains new_vmid: the value this output gave
\* it if the output names new_vmid itself, else the value it had before the
\* step if the caller or an earlier step had set it, else the output's vmid.
C34_NewVmidAlias ==
    execution.pc \in {"transport", "analysis", "done"}
        => \A k \in 1..Len(execution.transport_calls) :
              GaveVmid(execution, k)
                  => LET before == execution.transport_calls[k].params
                         after == ContextAfter(execution, k)
                         parsed == json_loads(execution.result.steps[k].output).d
                     IN /\ "new_vmid" \in DOMAIN after
                        /\ after["new_vmid"] =
                              IF "new_vmid" \in DOMAIN parsed THEN parsed["new_vmid"]
                              ELSE IF "new_vmid" \in DOMAIN before THEN before["new_vmid"]
                              ELSE parsed["vmid"]

\* C34 witness: the first step printed {"vmid": 110}, which set new_vmid to
\* 110, and the second printed {"vmid": 120, ...}, which left new_vmid alone
C34_Witness ==
    /\ execution.pc = "transport" /\ execution.step = 3
    /\ execution.request.parameters = << >>
    /\ GaveVmid(execution, 1) /\ GaveVmid(execution, 2)
    /\ execution.result.steps[1].output = VmidText
    /\ execution.result.steps[2].output = ReplicaText
    /\ execution.transport_calls[2].params["new_vmid"] = PyInt(110)
    /\ execution.transport_calls[3].params["new_vmid"] = PyInt(110)
    /\ execution.transport_calls[3].params["vmid"] = PyInt(120)

\* ---- executor.py: _resolve_template -----------------------------------------
\* A text is a sequence of characters; a parameter context is a sequence of
\* (key, value) pairs in the order the dict holds them.

MaxPieces == 3

\* the pieces command templates are written from: {{a}}, {{b}}, an unclosed
\* {{a}, a closing brace, a quote, a word and a blank
TemplatePieces ==
    { <<"{", "{", "a", "}", "}">>, <<"{", "{", "b", "}", "}">>,
      <<"{", "{", "a", "}">>, <<"}">>, <<"\"">>, <<"x">>, <<" ">> }

RECURSIVE join_pieces(_)
join_pieces(pieces) ==
    IF pieces = << >> THEN << >> ELSE Head(pieces) \o join_pieces(Tail(pieces))

CommandTemplates ==
    { join_pieces(ps) : ps \in UNION { [1..n -> TemplatePieces] : n \in 0..MaxPieces } }

\* the running parameter contexts: empty, a plain value, a value with a quote,
\* and values that carry placeholder text, before or after the key they name
CommandParams ==
    { << >>,
      << <<"a", <<"v">>>> >>,
      << <<"a", <<"q", "\"">>>> >>,
      << <<"a", <<"{", "{", "b", "}", "}">>>>, <<"b", <<"w">>>> >>,
      << <<"b", <<"w">>>>, <<"a", <<"{", "{", "b", "}", "}">>>> >>,
      << <<"a", <<"{", "{", "c", "}", "}">>>> >> }

Transports == {"ssh", "icontrol_rest"}

\* text[i:].startswith(pat)
is_at(text, pat, i) ==
    /\ i + Len(pat) - 1 <= Len(text)
    /\ \A j \in 1..Len(pat) : text[i + j - 1] = pat[j]

\* text.find(pat), counted from 1; 0 when pat does not occur
str_find(text, pat) ==
    LET I == { i \in 1..Len(text) : is_at(text, pat, i) }
    IN IF I = {} THEN 0 ELSE CHOOSE i \in I : \A j \in I : i <= j

\* text.replace(pat, val), from position i on
RECURSIVE str_replace(_, _, _, _)
str_replace(text, pat, val, i) ==
    IF i > Len(text) THEN << >>
    ELSE IF is_at(text, pat, i)
         THEN val \o str_replace(text, pat, val, i + Len(pat))
         ELSE <<text[i]>> \o str_replace(text, pat, val, i + 1)

\* the replacements of the JSON escape, character by character
json_escape_char(c) ==
    CASE c = "\\" -> <<"\\", "\\">>
      [] c = "\"" -> <<"\\", "\"">>
      [] c = "\n" -> <<"\\", "n">>
      [] c = "\r" -> <<"\\", "r">>
      [] c = "\t" -> <<"\\", "t">>
      [] OTHER    -> <<c>>

RECURSIVE json_escape(_)
json_escape(val) ==
    IF val = << >> THEN << >> ELSE json_escape_char(Head(val)) \o json_escape(Tail(val))

\* the loop over params.items(), from pair n on
RECURSIVE substitute(_, _, _, _)
substitute(result, params, transport, n) ==
    IF n > Len(params) THEN result
    ELSE LET key == params[n][1]
             key_placeholder == <<"{", "{", key, "}", "}">>
             found_at == str_find(result, key_placeholder)
             val_str == IF /\ transport = "icontrol_rest"
                           /\ found_at > 1
                           /\ result[found_at - 1] = "\""
                        THEN json_escape(params[n][2])
                        ELSE params[n][2]
         IN substitute(str_replace(result, key_placeholder, val_str, 1), params, transport, n + 1)

\* where the match of \{\{[^}]+\}\} that starts at i ends; 0 when none does
match_end(text, i) ==
    IF ~is_at(text, <<"{", "{">>, i) THEN 0
    ELSE LET J == { j \in (i + 2)..Len(text) : text[j] = "}" }
         IN IF J = {} THEN 0
            ELSE LET j == CHOOSE j \in J : \A m \in J : j <= m
                 IN IF j > i + 2 /\ is_at(text, <<"}", "}">>, j) THEN j + 1 ELSE 0

\* re.sub(r"\{\{[^}]+\}\}", "", text), from position i on
RECURSIVE sub_placeholders(_, _)
sub_placeholders(text, i) ==
    IF i > Len(text) THEN << >>
    ELSE IF match_end(text, i) # 0
         THEN sub_placeholders(text, match_end(text, i) + 1)
         ELSE <<text[i]>> \o sub_placeholders(text, i + 1)

\* re.sub(r"  +", " ", text): a blank that follows a blank is dropped
RECURSIVE sub_blanks(_, _)
sub_blanks(text, i) ==
    IF i > Len(text) THEN << >>
    ELSE IF text[i] = " " /\ i > 1 /\ text[i - 1] = " "
         THEN sub_blanks(text, i + 1)
         ELSE <<text[i]>> \o sub_blanks(text, i + 1)

Whitespace == {" ", "\n", "\r", "\t"}

\* text.strip()
str_strip(text) ==
    LET I == { i \in 1..Len(text) : text[i] \notin Whitespace }
    IN IF I = {} THEN << >>
       ELSE SubSeq(text, CHOOSE i \in I : \A j \in I : i <= j,
                         CHOOSE i \in I : \A j \in I : i >= j)

\* _resolve_template(template, params, transport)
resolve_command(template, params, transport) ==
    str_strip(sub_blanks(sub_placeholders(substitute(template, params, transport, 1), 1), 1))

\* execute_skill line 229: the command of a step is resolved from the
\* command template and the running parameter context
ResolveCommand ==
    /\ execution.pc = "template"
    /\ execution' = [execution EXCEPT
                        !.pc = "resolved",
                        !.command = resolve_command(execution.command_template,
                                                    execution.params,
                                                    execution.transport)]
    /\ UNCHANGED <<automations, store, pc, run, automation, start_idx, idx, call, ret,
                   invoked>>

InitCommand ==
    /\ automations = NoAutomation
    /\ store = NoRun
    /\ pc = [p \in Procs |-> "idle"]
    /\ run = [p \in Procs |-> NoRun]
    /\ automation = [p \in Procs |-> <<>>]
    /\ start_idx = [p \in Procs |-> 0]
    /\ idx = [p \in Procs |-> 0]
    /\ call = [p \in Procs |-> NoCall]
    /\ ret = [p \in Procs |-> NoRet]
    /\ invoked = << >>
    /\ \E template \in CommandTemplates, params \in CommandParams, transport \in Transports :
          execution = [pc |-> "template", command_template |-> template,
                       params |-> params, transport |-> transport, command |-> << >>]

NextCommand == ResolveCommand

SpecCommand == InitCommand /\ [][NextCommand]_vars

\* the text holds {{name}}: two opening braces, a name without braces, two
\* closing braces
HasPlaceholder(text) ==
    \E i \in 1..Len(text), j \in 1..Len(text) :
        /\ j > i + 2
        /\ is_at(text, <<"{", "{">>, i)
        /\ is_at(text, <<"}", "}">>, j)
        /\ \A k \in (i + 2)..(j - 1) : text[k] \notin {"{", "}"}

\* C35: the command handed to a transport never contains a {{name}}
\* placeholder: whatever the template and the parameter values, every
\* placeholder still present after the substitution has been removed.
C35_NoPlaceholderInCommand ==
    execution.pc = "resolved" => ~HasPlaceholder(execution.command)

\* ---- executor.py: execute_skill_streaming -----------------------------------
\* execute_skill and execute_skill_streaming are run on the same request, with
\* the same answers of the credential store and of the transports
\* (execution.given); the streaming call keeps its state in execution.stream.

MaxStreamSteps == 2

\* the transport raises instead of returning a result dict
RaisedOutcome == [success |-> FALSE, output |-> "", raised |-> TRUE]

StreamOutcomes ==
    { [success |-> ok, output |-> text] : ok \in BOOLEAN, text \in {VmidText, "ok"} }
        \cup {RaisedOutcome}

has_raised(outcome) == "raised" \in DOMAIN outcome

StreamSkills == UNION { SkillsOfLen(n) : n \in 0..MaxStreamSteps }

StreamParameters == { << >>, "new_vmid" :> PyStr("7") }

\* yield event
yield(s, event) == [s EXCEPT !.events = Append(@, event)]

\* lines 539-562: build the result, save it, yield execution_complete
stream_end(s) ==
    LET result == [status |-> IF s.failed THEN "failed" ELSE "complete",
                   error |-> "",
                   steps |-> s.all_step_results,
                   analysis |-> s.analysis]
    IN [yield(s, [type |-> "execution_complete", status |-> result.status,
                  result |-> result])
          EXCEPT !.pc = "done", !.history = Append(@, result)]

\* lines 530-537: after the loop, the analysis if the skill has one
stream_finish(s, skill) ==
    IF ~s.failed /\ skill.analysis
    THEN [yield(s, [type |-> "analyzing"]) EXCEPT !.pc = "analysis"]
    ELSE stream_end(s)

\* the top of the loop for step k: yield step_start and call the transport
stream_begin_step(s, skill, k) ==
    IF k > Len(skill.steps)
    THEN stream_finish(s, skill)
    ELSE [yield(s, [type |-> "step_start", step_index |-> k - 1,
                    step_name |-> skill.steps[k].name])
            EXCEPT !.pc = "transport", !.step = k]

\* execute_skill_streaming(request) up to the await of get_device_credentials
StreamStart ==
    /\ execution.stream.pc = "idle"
    /\ LET skill == get_skill(execution.catalog, execution.given.skill_name)
       IN execution' =
             [execution EXCEPT !.stream =
                 IF ~skill.found
                 THEN [yield(@, [type |-> "error", error |-> "Skill not found"])
                         EXCEPT !.pc = "done"]
                 ELSE [@ EXCEPT !.pc = "credentials"]]
    /\ UNCHANGED <<automations, store, pc, run, automation, start_idx, idx, call, ret,
                   invoked>>

\* get_device_credentials returns to the streaming call
StreamCredentialsReturn ==
    /\ execution.stream.pc = "credentials"
    /\ LET skill == get_skill(execution.catalog, execution.given.skill_name)
       IN execution' =
             [execution EXCEPT !.stream =
                 IF ~execution.given.found
                 THEN [yield(@, [type |-> "error", error |-> "No credentials"])
                         EXCEPT !.pc = "done"]
                 ELSE stream_begin_step(
                        yield([@ EXCEPT !.running_params = execution.given.parameters],
                              [type |-> "execution_start",
                               total_steps |-> Len(skill.steps)]),
                        skill, 1)]
    /\ UNCHANGED <<automations, store, pc, run, automation, start_idx, idx, call, ret,
                   invoked>>

\* the transport of the current step returns a result dict to the streaming call
StreamTransportReturns ==
    /\ execution.stream.pc = "transport"
    /\ ~has_raised(execution.given.outcomes[execution.stream.step])
    /\ LET skill == get_skill(execution.catalog, execution.given.skill_name)
           k == execution.stream.step
           res == execution.given.outcomes[k]
           status == IF res.success THEN "complete" ELSE "failed"
           error == IF res.success THEN "" ELSE "command failed"
           s1 == yield([execution.stream EXCEPT
                           !.all_step_results =
                               Append(@, [step_name |-> skill.steps[k].name,
                                          status |-> status,
                                          output |-> res.output,
                                          error |-> error])],
                       [type |-> "step_complete", step_index |-> k - 1,
                        step_name |-> skill.steps[k].name, status |-> status,
                        output |-> res.output, error |-> error])
       IN execution' =
             [execution EXCEPT !.stream =
                 IF ~res.success
                 THEN IF skill.steps[k].continue_on_fail
                      THEN stream_begin_step(s1, skill, k + 1)
                      ELSE stream_finish([s1 EXCEPT !.failed = TRUE], skill)
                 ELSE stream_begin_step(
                        [s1 EXCEPT !.running_params = merge_output(@, TRUE, res.output)],
                        skill, k + 1)]
    /\ UNCHANGED <<automations, store, pc, run, automation, start_idx, idx, call, ret,
                   invoked>>

\* the transport of the current step raises in the streaming call
StreamTransportRaises ==
    /\ execution.stream.pc = "transport"
    /\ has_raised(execution.given.outcomes[execution.stream.step])
    /\ LET skill == get_skill(execution.catalog, execution.given.skill_name)
           k == execution.stream.step
           s1 == yield([execution.stream EXCEPT
                           !.all_step_results =
                               Append(@, [step_name |-> skill.steps[k].name,
                                          status |-> "failed",
                                          output |-> "",
                                          error |-> "exception"])],
                       [type |-> "step_complete", step_index |-> k - 1,
                        step_name |-> skill.steps[k].name, status |-> "failed",
                        output |-> "", error |-> "exception"])
       IN execution' =
             [execution EXCEPT !.stream = stream_finish([s1 EXCEPT !.failed = TRUE], skill)]
    /\ UNCHANGED <<automations, store, pc, run, automation, start_idx, idx, call, ret,
                   invoked>>

\* _run_analysis returns its text to the streaming call
StreamAnalysisReturns ==
    /\ execution.stream.pc = "analysis"
    /\ execution' =
          [execution EXCEPT !.stream = stream_end([@ EXCEPT !.analysis = "analysis text"])]
    /\ UNCHANGED <<automations, store, pc, run, automation, start_idx, idx, call, ret,
                   invoked>>

InitStream ==
    /\ automations = NoAutomation
    /\ store = NoRun
    /\ pc = [p \in Procs |-> "idle"]
    /\ run = [p \in Procs |-> NoRun]
    /\ automation = [p \in Procs |-> <<>>]
    /\ start_idx = [p \in Procs |-> 0]
    /\ idx = [p \in Procs |-> 0]
    /\ call = [p \in Procs |-> NoCall]
    /\ ret = [p \in Procs |-> NoRet]
    /\ invoked = << >>
    /\ \E catalog \in StreamSkills, skill_name \in SkillNames,
          parameters \in StreamParameters, found \in BOOLEAN :
          \E outcomes \in [1..Len(catalog.steps) -> StreamOutcomes] :
             execution =
                [pc |-> "idle", catalog |-> catalog, skill |-> NoSkill,
                 request |-> [skill_name |-> "", device_hostname |-> "",
                              parameters |-> << >>],
                 result |-> [status |-> "pending", error |-> "", steps |-> << >>,
                             analysis |-> ""],
                 creds |-> "not asked",
                 running_params |-> << >>, step |-> 0,
                 transport_calls |-> << >>, history |-> << >>,
                 given |-> [skill_name |-> skill_name, parameters |-> parameters,
                            found |-> found, outcomes |-> outcomes],
                 stream |-> [pc |-> "idle", events |-> << >>,
                             all_step_results |-> << >>, failed |-> FALSE,
                             running_params |-> << >>, step |-> 0,
                             analysis |-> "", history |-> << >>]]

NextStream ==
    \/ ExecuteSkill(execution.given.skill_name, "bigip01", execution.given.parameters)
    \/ CredentialsReturn(execution.given.found)
    \/ /\ execution.pc = "transport"
       /\ ~has_raised(execution.given.outcomes[execution.step])
       /\ TransportReturns(execution.given.outcomes[execution.step])
    \/ /\ execution.pc = "transport"
       /\ has_raised(execution.given.outcomes[execution.step])
       /\ TransportRaises
    \/ AnalysisReturns
    \/ StreamStart
    \/ StreamCredentialsReturn
    \/ StreamTransportReturns
    \/ StreamTransportRaises
    \/ StreamAnalysisReturns

SpecStream == InitStream /\ [][NextStream]_vars

\* the events the streaming call has yielded so far
Events == execution.stream.events

StreamDone == execution.stream.pc = "done"

\* the step whose step_complete is event i failed without continue_on_fail
FailedToStop(i) ==
    /\ Events[i].type = "step_complete"
    /\ Events[i].status = "failed"
    /\ ~execution.catalog.steps[Events[i].step_index + 1].continue_on_fail

\* C32: the streaming variant yields execution_start first; for each
\* attempted step, in step order, step_start and then that step's
\* step_complete before the next step_start; analyzing after the last
\* step_complete; execution_complete last and exactly once; and no step_start
\* after a step that failed without continue_on_fail.
C32_EventOrder ==
    /\ Len(Events) >= 1 => Events[1].type = "execution_start"
    /\ \A i \in 1..Len(Events) :
          /\ Events[i].type \in {"execution_start", "step_start", "step_complete",
                                 "analyzing", "execution_complete"}
          /\ Events[i].type = "execution_start" => i = 1
          /\ Events[i].type = "step_start"
                => /\ i > 1
                   /\ IF Events[i].step_index = 0
                      THEN Events[i - 1].type = "execution_start"
                      ELSE /\ Events[i - 1].type = "step_complete"
                           /\ Events[i - 1].step_index = Events[i].step_index - 1
                   /\ \A j \in 1..(i - 1) : ~FailedToStop(j)
          /\ Events[i].type = "step_complete"
                => /\ i > 1
                   /\ Events[i - 1].type = "step_start"
                   /\ Events[i - 1].step_index = Events[i].step_index
          /\ Events[i].type = "analyzing"
                => /\ i > 1
                   /\ Events[i - 1].type \in {"execution_start", "step_complete"}
                   /\ \A j \in (i + 1)..Len(Events) : Events[j].type = "execution_complete"
          /\ Events[i].type = "execution_complete" => i = Len(Events)
    /\ StreamDone
          => /\ Len(Events) >= 1
             /\ Events[Len(Events)].type = "execution_complete"

\* both calls have ended
BothDone == SkillReturned /\ StreamDone

\* C33: for the same skill, device, parameters and transport outcomes the
\* streaming variant ends with an execution_complete event whose result has
\* the overall status, the per-step statuses and outputs in order and the
\* analysis of the result execute_skill returns, and that result is saved to
\* the execution history; also for an unknown skill, for missing credentials
\* and for a failed step with continue_on_fail.
C33_StreamingSameResult ==
    BothDone
        => /\ Len(Events) >= 1
           /\ LET last == Events[Len(Events)]
                  returned == execution.result
              IN /\ last.type = "execution_complete"
                 /\ last.result.status = returned.status
                 /\ Len(last.result.steps) = Len(returned.steps)
                 /\ \A k \in 1..Len(returned.steps) :
                       /\ last.result.steps[k].step_name = returned.steps[k].step_name
                       /\ last.result.steps[k].status = returned.steps[k].status
                       /\ last.result.steps[k].output = returned.steps[k].output
                 /\ last.result.analysis = returned.analysis
                 /\ execution.stream.history = << last.result >>

\* the number of times the skill of step i of the followed run was invoked
TimesInvoked(i) ==
    Cardinality({ k \in 1..Len(invoked) :
                    invoked[k].run_id = FollowedRun /\ invoked[k].step = i })

\* the run record r, if complete, holds one result per step of the chain, in
\* step order, each step was attempted once, and current_step is total_steps
CompleteCoversChain(r) ==
    r.status = "complete"
        => /\ r.total_steps = Len(automations)
           /\ r.current_step = r.total_steps
           /\ Len(r.step_results) = r.total_steps
           /\ \A n \in 1..Len(r.step_results) :
                 /\ r.step_results[n].step_id = automations[n].id
                 /\ IF r.step_results[n].error = "Could not resolve device"
                    THEN TimesInvoked(n - 1) = 0
                    ELSE TimesInvoked(n - 1) = 1

\* C36: a run has status complete only if every step of the chain was
\* attempted exactly once: step_results has one entry per chain step, in
\* step order, and current_step equals total_steps; a chain with no steps
\* completes at once with no results.
C36_CompleteMeansAllSteps ==
    /\ store # NoRun => CompleteCoversChain(store)
    /\ \A p \in Procs :
          (run[p] # NoRun /\ call[p].run_id = FollowedRun) => CompleteCoversChain(run[p])
    /\ \A p \in Procs :
          (ExecReturned(p) /\ Len(automations) = 0)
              => /\ ret[p].run.status = "complete"
                 /\ ret[p].run.step_results = << >>
                 /\ invoked = << >>

\* C36 witness: a run of two steps, the first without a device and skipped,
\* the second behind a gate, is complete after a resume with two results
C36_Witness ==
    /\ store # NoRun
    /\ store.status = "complete"
    /\ Len(store.step_results) = 2
    /\ store.step_results[1].error = "Could not resolve device"
    /\ store.step_results[2].status = "complete"
    /\ \E k \in 1..Len(invoked) : invoked[k].op = "resume_chain_run" /\ invoked[k].step = 1

\* ---- termination of the step loop --------------------------------------------
\* Every skill invocation returns or raises: the await of execute_skill in
\* _run_steps does not last forever.

MaxLiveSteps == 2

InitLive ==
    /\ Init
    /\ Len(automations) <= MaxLiveSteps

SkillsAnswer == WF_vars(\E p \in Procs, o \in Outcomes : SkillReturns(p, o))

SpecLive == InitLive /\ [][Next]_vars /\ SkillsAnswer

\* invocation p is an execute_chain or a resume_chain_run(approve) that has
\* returned its run
RunReturned(p) ==
    /\ pc[p] = "done"
    /\ ret[p].kind = "run"
    /\ call[p].op = "execute_chain" \/ ResumeOfWaiting(p, "approve")

\* C37: every execute_chain call and every resume_chain_run(approve) call
\* whose skill invocations all return does return, and the run it returns,
\* which is also the record it leaves in the run store, is waiting_approval,
\* complete or failed, never running.
C37_ReturnsNotRunning ==
    /\ [](\A p \in Procs :
            RunReturned(p)
               => /\ ret[p].run.status \in {"waiting_approval", "complete", "failed"}
                  /\ call[p].run_id = FollowedRun => store = ret[p].run)
    /\ []((\A p \in Procs : pc[p] = "idle")
             => (store = NoRun \/ store.status # "running"))
    /\ \A p \in Procs : (pc[p] = "await") ~> (pc[p] = "done")

\* C37 witness: a resume that invoked a skill has returned the run as failed
C37_Witness ==
    \E p \in Procs :
        /\ RunReturned(p)
        /\ ResumeOfWaiting(p, "approve")
        /\ Len(invoked) > call[p].ninv
        /\ ret[p].run.status = "failed"
        /\ store.status = "failed"

\* C38: a rejection is final under interleaving: once resume_chain_run(reject)
\* has stored the run as cancelled, also while a resume_chain_run(approve) of
\* the same run is in flight, no skill of that run is invoked any more and
\* the run store's record stays cancelled.
C38_RejectionIsFinal ==
    [][ (store # NoRun /\ store.status = "cancelled")
           => /\ store' = store
              /\ \A k \in (Len(invoked) + 1)..Len(invoked') :
                    invoked'[k].run_id # FollowedRun ]_vars

\* ---- creating and updating a definition --------------------------------------

MaxCreateSteps == 2

\* the ids a caller may send with a step: none, the default of the first or
\* of the second step, a name of its own
CallerIds == {"", default_step_id(0), default_step_id(1), "backup"}

\* the steps a caller may send to create_automation or update_automation
CreateSteps ==
    UNION { { [k \in 1..n |-> [ChainStep(k - 1, "auto", f[k], "device")
                                  EXCEPT !.id = ids[k]]] :
                 ids \in [1..n -> CallerIds], f \in [1..n -> OnFailures] } :
            n \in 0..MaxCreateSteps }

\* create_automation({"steps": steps})
CreateAutomation(steps) ==
    /\ automations = NoAutomation
    /\ automations' = normalize_steps(steps)
    /\ UNCHANGED <<execution, store, pc, run, automation, start_idx, idx, call, ret, invoked>>

InitCreate ==
    /\ automations = NoAutomation
    /\ store = NoRun
    /\ pc = [p \in Procs |-> "idle"]
    /\ run = [p \in Procs |-> NoRun]
    /\ automation = [p \in Procs |-> <<>>]
    /\ start_idx = [p \in Procs |-> 0]
    /\ idx = [p \in Procs |-> 0]
    /\ call = [p \in Procs |-> NoCall]
    /\ ret = [p \in Procs |-> NoRet]
    /\ invoked = <<>>
    /\ execution = NoExecution

\* a definition is created, may be updated until it is run, and is run
NextCreate ==
    \/ \E steps \in CreateSteps : CreateAutomation(steps)
    \/ \E steps \in CreateSteps : store = NoRun /\ UpdateAutomation(steps)
    \/ \E p \in Procs, g \in OnGates : Sequential(p) /\ ExecuteChain(p, g)
    \/ \E p \in Procs, o \in ConcOutcomes : SkillReturns(p, o)
    \/ \E p \in Procs : Return(p)

SpecCreate == InitCreate /\ [][NextCreate]_vars

\* C39: after create_automation or update_automation every step of the
\* stored chain has a non-empty id and the ids are pairwise distinct, also
\* when some are the caller's and others the default step-{index+1}; so
\* every executed step keeps its own entry in the run context.
C39_StepIdsDistinct ==
    /\ automations # NoAutomation
          => \A k \in 1..Len(automations) :
                /\ automations[k].id # ""
                /\ \A j \in 1..Len(automations) :
                      j # k => automations[j].id # automations[k].id
    /\ \A p \in Procs :
          run[p] # NoRun
             => Cardinality(DOMAIN run[p].context.steps) = Len(run[p].step_results)

\* ---- clusters.py: the IP pool of a cluster ------------------------------------
\* The cluster record is held in execution: the configured addresses and VMID
\* range, the allocated map, and what the last call was given and returned.

MaxPool == 2

MgmtIps == <<"192.168.1.21", "192.168.1.22", "192.168.1.23", "192.168.1.24">>

SelfIps == <<"10.1.1.11", "10.1.1.12", "10.1.1.13", "10.1.1.14">>

\* the first VMID of the range a cluster may be configured with
VmidStarts == {0, 101}

\* allocate_ip returned None
NoAllocation == [mgmt_ip |-> "", self_ip |-> "", vmid |-> -1]

\* the set of v.get("vmid") for v in allocated.values() if v.get("vmid")
used_vmids(allocated) ==
    { allocated[m].vmid : m \in { x \in DOMAIN allocated : allocated[x].vmid # 0 } }

\* the first v of range(vmid_start, vmid_end + 1) that is not used; -1 for None
next_vmid(vmid_start, vmid_end, used) ==
    LET free == { v \in vmid_start..vmid_end : v \notin used }
    IN IF free = {} THEN -1 ELSE CHOOSE v \in free : \A w \in free : v <= w

\* the index of the first management IP that is not allocated; 0 when none
first_unallocated(mgmt_ips, allocated) ==
    LET I == { i \in 1..Len(mgmt_ips) : mgmt_ips[i] \notin DOMAIN allocated }
    IN IF I = {} THEN 0 ELSE CHOOSE i \in I : \A j \in I : i <= j

\* allocate_ip(cluster_id)
AllocateIp ==
    /\ execution.pc = "pool"
    /\ LET c == execution
           i == first_unallocated(c.mgmt_ips, c.allocated)
           vmid == next_vmid(c.vmid_range_start, c.vmid_range_end,
                             used_vmids(c.allocated))
           called == [op |-> "allocate_ip", before |-> c.allocated]
       IN execution' =
             IF Len(c.mgmt_ips) # Len(c.self_ips) \/ i = 0 \/ vmid = -1
             THEN [c EXCEPT !.last = called @@ [result |-> NoAllocation]]
             ELSE [c EXCEPT
                     !.allocated = (c.mgmt_ips[i] :>
                                      [self_ip |-> c.self_ips[i], vmid |-> vmid]) @@ @,
                     !.last = called @@ [result |-> [mgmt_ip |-> c.mgmt_ips[i],
                                                     self_ip |-> c.self_ips[i],
                                                     vmid |-> vmid]]]
    /\ UNCHANGED <<automations, store, pc, run, automation, start_idx, idx, call, ret,
                   invoked>>

\* the allocated map without the entry of m_ip
without(allocated, m_ip) ==
    [m \in DOMAIN allocated \ {m_ip} |-> allocated[m]]

\* release_ip(cluster_id, mgmt_ip, self_ip); "" stands for None
ReleaseIp(mgmt_ip, self_ip) ==
    /\ execution.pc = "pool"
    /\ mgmt_ip # "" \/ self_ip # ""
    /\ LET c == execution
           called == [op |-> "release_ip", before |-> c.allocated]
           by_self == { m \in DOMAIN c.allocated : c.allocated[m].self_ip = self_ip }
       IN execution' =
             IF mgmt_ip # "" /\ mgmt_ip \in DOMAIN c.allocated
             THEN [c EXCEPT !.allocated = without(@, mgmt_ip),
                            !.last = called @@ [result |-> TRUE]]
             ELSE IF self_ip # "" /\ by_self # {}
                  THEN [c EXCEPT !.allocated = without(@, CHOOSE m \in by_self : TRUE),
                                 !.last = called @@ [result |-> TRUE]]
                  ELSE [c EXCEPT !.last = called @@ [result |-> FALSE]]
    /\ UNCHANGED <<automations, store, pc, run, automation, start_idx, idx, call, ret,
                   invoked>>

InitPool ==
    /\ automations = NoAutomation
    /\ store = NoRun
    /\ pc = [p \in Procs |-> "idle"]
    /\ run = [p \in Procs |-> NoRun]
    /\ automation = [p \in Procs |-> <<>>]
    /\ start_idx = [p \in Procs |-> 0]
    /\ idx = [p \in Procs |-> 0]
    /\ call = [p \in Procs |-> NoCall]
    /\ ret = [p \in Procs |-> NoRet]
    /\ invoked = << >>
    /\ \E n \in 0..MaxPool, m \in 0..MaxPool, vmid_start \in VmidStarts, span \in 0..MaxPool :
          execution = [pc |-> "pool",
                       mgmt_ips |-> SubSeq(MgmtIps, 1, n),
                       self_ips |-> SubSeq(SelfIps, 1, m),
                       vmid_range_start |-> vmid_start,
                       vmid_range_end |-> vmid_start + span - 1,
                       allocated |-> << >>,
                       last |-> [op |-> "none", before |-> << >>, result |-> FALSE]]

NextPool ==
    \/ AllocateIp
    \/ \E mgmt_ip \in {MgmtIps[i] : i \in 1..MaxPool} \cup {""},
          self_ip \in {SelfIps[i] : i \in 1..MaxPool} \cup {""} :
          ReleaseIp(mgmt_ip, self_ip)

SpecPool == InitPool /\ [][NextPool]_vars

\* the VMIDs of the live allocations
LiveVmids(allocated) == { allocated[m].vmid : m \in DOMAIN allocated }

\* C40: after any sequence of allocate_ip and release_ip calls on a cluster:
\* allocate_ip never returns a management IP that is allocated, the self-IP
\* it returns is the one at the position of the management IP, no two live
\* allocations share a VMID, every returned VMID lies in the VMID range, and
\* when no management IP or no VMID is free it returns nothing and leaves
\* the pool unchanged.
C40_PoolAllocation ==
    LET c == execution
        last == c.last
    IN /\ \A a, b \in DOMAIN c.allocated :
             a # b => c.allocated[a].vmid # c.allocated[b].vmid
       /\ (last.op = "allocate_ip" /\ last.result # NoAllocation)
             => /\ last.result.mgmt_ip \notin DOMAIN last.before
                /\ \E i \in 1..Len(c.mgmt_ips) :
                      /\ c.mgmt_ips[i] = last.result.mgmt_ip
                      /\ c.self_ips[i] = last.result.self_ip
                /\ last.result.vmid \in c.vmid_range_start..c.vmid_range_end
                /\ c.allocated[last.result.mgmt_ip] =
                      [self_ip |-> last.result.self_ip, vmid |-> last.result.vmid]
       /\ ( /\ last.op = "allocate_ip"
            /\ \/ \A i \in 1..Len(c.mgmt_ips) : c.mgmt_ips[i] \in DOMAIN last.before
               \/ \A v \in c.vmid_range_start..c.vmid_range_end :
                     v \in LiveVmids(last.before) )
             => /\ last.result = NoAllocation
                /\ c.allocated = last.before

====
